---- MODULE Spec2Model ----
(***************************************************************************)
(* Model of the accelerometer pipeline of assignment-1-imu:                *)
(*   position.py          integration of acceleration (plain and ZUPT)     *)
(*   calculate_params.py  ellipsoid fit and the calibration model          *)
(*                                                                         *)
(* Numbers.  The Python code computes in IEEE doubles.  The model computes *)
(* in exact rational arithmetic: a number is a pair <<num, den>> in lowest *)
(* terms with den > 0.  The inputs are drawn from small sets of integers   *)
(* and dyadic rationals, for which the double results of the integrator    *)
(* are exact as well.                                                      *)
(*                                                                         *)
(* Indexing.  Arrays and DataFrame columns are functions over 0..n-1, so   *)
(* an index of the model is the index of the source.                       *)
(***************************************************************************)
EXTENDS Integers, Sequences, FiniteSets, TLC

----------------------------------------------------------------------------
(* Exact rational arithmetic (stands for Python float arithmetic).         *)

Abs(x) == IF x < 0 THEN -x ELSE x

RECURSIVE GCD(_, _)
GCD(a, b) == IF b = 0 THEN a ELSE GCD(b, a % b)

\* the rational n/d in lowest terms, d # 0
Rat(n, d) ==
    LET g == GCD(Abs(n), Abs(d))
        s == IF d < 0 THEN -1 ELSE 1
    IN  <<(s * n) \div g, (s * d) \div g>>

R(n) == <<n, 1>>
Zero == R(0)
One == R(1)
Half == Rat(1, 2)

\* the operations reduce before they multiply, to keep the integers small
RAdd(a, b) ==
    LET gd == GCD(a[2], b[2])
    IN  Rat(a[1] * (b[2] \div gd) + b[1] * (a[2] \div gd), (a[2] \div gd) * b[2])
RNeg(a) == <<-a[1], a[2]>>
RSub(a, b) == RAdd(a, RNeg(b))
RMul(a, b) ==
    LET g1 == GCD(Abs(a[1]), b[2])
        g2 == GCD(Abs(b[1]), a[2])
    IN  Rat((a[1] \div g1) * (b[1] \div g2), (a[2] \div g2) * (b[2] \div g1))
RInv(a) == Rat(a[2], a[1])
RDiv(a, b) == RMul(a, RInv(b))
RLt(a, b) == RSub(a, b)[1] < 0
RLe(a, b) == RSub(a, b)[1] <= 0
RSq(a) == RMul(a, a)

\* the integer square root of m >= 0, rounded down
RECURSIVE SqrtSearch(_, _, _)
SqrtSearch(m, lo, hi) ==
    IF lo >= hi THEN lo
    ELSE LET mid == (lo + hi + 1) \div 2
         IN  IF mid * mid <= m THEN SqrtSearch(m, mid, hi)
             ELSE SqrtSearch(m, lo, mid - 1)
ISqrt(m) == SqrtSearch(m, 0, IF m < 46340 THEN m ELSE 46340)
IsSquare(m) == ISqrt(m) * ISqrt(m) = m

\* np.sqrt on the values the model feeds it: squares of rationals (any other
\* argument stops the evaluation)
RSqrt(a) ==
    IF IsSquare(a[1]) /\ IsSquare(a[2]) THEN <<ISqrt(a[1]), ISqrt(a[2])>>
    ELSE CHOOSE r \in {} : TRUE

----------------------------------------------------------------------------
(* Bounds and input sets.                                                  *)

\* longest series handed to the integrator
MaxLen == 3

\* seconds_elapsed values; any order is allowed, so dt ranges over -2..2
TimeVals == {0, 1, 2}

\* acceleration samples (x, y, z); each has an integer magnitude
AccVals == {<<0, 0, 0>>, <<2, 0, 0>>, <<1, -2, 2>>}

\* (acc_threshold, window_size) pairs handed to calculate_position_with_zupt
ZuptParams == {<<R(0), 2>>, <<R(1), 2>>, <<R(1), 3>>}

Sample(t, a) ==
    [seconds_elapsed |-> R(t), x_acc |-> R(a[1]), y_acc |-> R(a[2]), z_acc |-> R(a[3])]

Samples == {Sample(t, a) : t \in TimeVals, a \in AccVals}

SeriesOfLen(len) == [0..(len - 1) -> Samples]

----------------------------------------------------------------------------
(* position.py: configuration                                              *)

UNITS_IN_MPS2 == TRUE

\* g = 9.81
g == Rat(981, 100)

----------------------------------------------------------------------------
(* position.py: state of one calculate_position call                       *)

VARIABLES
    pc,             \* "idle" | "loop" | "done"
    data,           \* the input DataFrame, one record per row
    apply_zupt,     \* APPLY_ZUPT
    acc_threshold,  \* acc_threshold of calculate_position_with_zupt
    window_size,    \* window_size of calculate_position_with_zupt
    x_acc_mps2, y_acc_mps2, z_acc_mps2,
    is_stationary,
    time, n, i,
    vx, vy, vz, px, py, pz,
    displacement    \* the squares of the entries of result['displacement']

intVars == <<pc, data, apply_zupt, acc_threshold, window_size,
             x_acc_mps2, y_acc_mps2, z_acc_mps2, is_stationary,
             time, n, i, vx, vy, vz, px, py, pz, displacement>>

\* calculate_params.py: state of one fit_ellipsoid / calibrate_accelerometer call
VARIABLES
    cpc,               \* "idle" | "fitted" | "calibrated"
    ellipsoid,         \* the ellipsoid the calibration data lies on
    X, Y, Z,           \* the data columns ax, ay, az
    center, radii, evecs,
    evals,             \* the eigenvalues inside fit_ellipsoid
    quadA, quadR,      \* the matrices A and R inside fit_ellipsoid
    bias, transform_matrix,
    calibrated_data

calVars == <<cpc, ellipsoid, X, Y, Z, center, radii, evecs, evals, quadA, quadR,
             bias, transform_matrix, calibrated_data>>

\* position.py: state of one calculate_drift call on the integrator's result
VARIABLES
    dpc,               \* "idle" | "returned" | "IndexError"
    known_distance,    \* the known_distance argument: NoDistance or a number
    drift_metrics      \* the returned dictionary

driftVars == <<dpc, known_distance, drift_metrics>>

\* position.py: state of one call of apply_calibration or of remove_gravity
VARIABLES
    apc,               \* "idle" | "returned"
    cal_in,            \* the data argument of apply_calibration
    cal_params,        \* the cal_params argument: a dictionary, or NoParams
    cal_out,           \* the DataFrame apply_calibration returns
    gpc,               \* "idle" | "returned"
    grav_in,           \* the data argument of remove_gravity
    grav_out           \* the DataFrame remove_gravity returns

preVars == <<apc, cal_in, cal_params, cal_out, gpc, grav_in, grav_out>>

\* position.py main(): the position in main, the content of INPUT_FILE, the
\* locals of main and the stages main has run, in order
VARIABLES
    main_pc, input_file, main_data, raw_data, main_cal_params, cal_data,
    raw_position_data, cal_position_data, raw_metrics, cal_metrics, stages

mainVars == <<main_pc, input_file, main_data, raw_data, main_cal_params, cal_data,
              raw_position_data, cal_position_data, raw_metrics, cal_metrics,
              stages>>

\* record_data.py: record_data_point (its position, arguments, locals, the
\* number of ser.read calls and of those that added no reading, and what it
\* returned), the file FILENAME with the data of every save_to_file call and
\* the number of those calls that did not return True, and main
\* (its position and locals)
VARIABLES
    rpc, num_samples, max_retries, readings, retries, reads, failed, avg_reading,
    file, saved, lost_saves,
    mpc, position_count, all_data, reading

pointVars == <<rpc, num_samples, max_retries, readings, retries, reads, failed,
               avg_reading>>
fileVars == <<file, saved, lost_saves>>
recVars == <<mpc, position_count, all_data, reading>>

\* record_data_timestamped.py: the position of main, record_raw_data (its
\* position, arguments, locals, the clock and the lines it has read) and the
\* file FILENAME of that module with the data of every save_to_file call
\* and the number of those calls that did not return True
VARIABLES
    tpc, wpc, now, end_time, raw_max_retries, raw_readings, raw_retries, raw_lines,
    raw_file, raw_saved, raw_lost_saves

rawVars == <<tpc, wpc, now, end_time, raw_max_retries, raw_readings, raw_retries,
             raw_lines, raw_file, raw_saved, raw_lost_saves>>

acqVars == <<pointVars, fileVars, recVars, rawVars>>

vars == <<intVars, calVars, driftVars, preVars, mainVars, acqVars>>

\* what an action of one function leaves alone: the state of the others
nonIntVars == <<calVars, driftVars, preVars, mainVars, acqVars>>
nonCalVars == <<intVars, driftVars, preVars, mainVars, acqVars>>
nonPreVars == <<intVars, calVars, driftVars, mainVars, acqVars>>
nonMainVars == <<intVars, calVars, driftVars, preVars, acqVars>>
nonAcqVars == <<intVars, calVars, driftVars, preVars, mainVars>>

\* len(df) of a DataFrame or array held as a function over 0..len-1
Len0(f) == Cardinality(DOMAIN f)

Empty == [k \in {} |-> Zero]

\* result['x_acc_mps2'] = result['x_acc'] (* g when the data is in g)
ToMps2(a) == IF UNITS_IN_MPS2 THEN a ELSE RMul(a, g)

\* np.zeros(n)
ZerosBug(len) == [k \in 0..(len - 1) |-> One]
Zeros(len) == [k \in 0..(len - 1) |-> Zero]

\* acc_mag = np.sqrt(x_acc**2 + y_acc**2 + z_acc**2), of the input columns
acc_mag(d) ==
    [k \in DOMAIN d |->
        RSqrt(RAdd(RAdd(RSq(d[k].x_acc), RSq(d[k].y_acc)), RSq(d[k].z_acc)))]

RECURSIVE SumOver(_, _, _)
SumOver(f, lo, hi) == IF lo > hi THEN Zero ELSE RAdd(f[lo], SumOver(f, lo + 1, hi))

\* pd.Series(m).rolling(window=w).var().fillna(0): the sample variance
\* (ddof = 1) of m[k-w+1..k]; NaN, so 0, where the window is incomplete or
\* holds one value
rolling_varBug(m, w) ==
    [k \in DOMAIN m |->
        IF k < w - 1 \/ w < 2 THEN Zero
        ELSE LET s  == SumOver(m, k - w + 1, k)
                 sq == SumOver([j \in DOMAIN m |-> RSq(m[j])], k - w + 1, k)
             IN  RDiv(RSub(sq, RDiv(RSq(s), R(w))), R(w))]
rolling_var(m, w) ==
    [k \in DOMAIN m |->
        IF k < w - 1 \/ w < 2 THEN Zero
        ELSE LET s  == SumOver(m, k - w + 1, k)
                 sq == SumOver([j \in DOMAIN m |-> RSq(m[j])], k - w + 1, k)
             IN  RDiv(RSub(sq, RDiv(RSq(s), R(w))), R(w - 1))]

\* detect_stationary_periods(data, threshold, window_size)
detect_stationary_periods(d, threshold, w) ==
    LET rv == rolling_var(acc_mag(d), w)
    IN  [k \in DOMAIN d |-> RLt(rv[k], threshold)]

\* dt = time[i] - time[i-1]
DtBug(tm, k) == tm[k]
Dt(tm, k) == RSub(tm[k], tm[k - 1])

\* vx[i-1] + 0.5 * (a[i-1] + a[i]) * dt
VelocityStepBug(vprev, aprev, acur, dt) == RAdd(vprev, RMul(acur, dt))
VelocityStep(vprev, aprev, acur, dt) ==
    RAdd(vprev, RMul(RMul(Half, RAdd(aprev, acur)), dt))

\* px[i-1] + 0.5 * (vx[i-1] + vx[i]) * dt
PositionStepBug(pprev, vprev, vcur, dt) == RAdd(pprev, RMul(vcur, dt))
PositionStep(pprev, vprev, vcur, dt) ==
    RAdd(pprev, RMul(RMul(Half, RAdd(vprev, vcur)), dt))

\* the ZUPT branch: integrate unless the sample is stationary, else 0
ZuptVelocityBug(stat, vprev, aprev, acur, dt) ==
    IF ~stat THEN VelocityStep(vprev, aprev, acur, dt) ELSE RMul(Half, vprev)
ZuptVelocity(stat, vprev, aprev, acur, dt) ==
    IF ~stat THEN VelocityStep(vprev, aprev, acur, dt) ELSE Zero

\* px**2 + py**2 + pz**2, the square of an entry of result['displacement']
DisplacementSqBug(x, y, z) == RAdd(RAdd(RSq(y), RSq(y)), RSq(z))
DisplacementSq(x, y, z) == RAdd(RAdd(RSq(x), RSq(y)), RSq(z))

IntInit ==
    /\ pc = "idle"
    /\ data = Empty
    /\ apply_zupt = FALSE
    /\ acc_threshold = Zero
    /\ window_size = 0
    /\ x_acc_mps2 = Empty /\ y_acc_mps2 = Empty /\ z_acc_mps2 = Empty
    /\ is_stationary = Empty
    /\ time = Empty /\ n = 0 /\ i = 0
    /\ vx = Empty /\ vy = Empty /\ vz = Empty
    /\ px = Empty /\ py = Empty /\ pz = Empty
    /\ displacement = Empty

\* the part of both functions before the loop: the unit conversion and the
\* zeroed arrays
Setup(d) ==
    /\ data' = d
    /\ x_acc_mps2' = [k \in DOMAIN d |-> ToMps2(d[k].x_acc)]
    /\ y_acc_mps2' = [k \in DOMAIN d |-> ToMps2(d[k].y_acc)]
    /\ z_acc_mps2' = [k \in DOMAIN d |-> ToMps2(d[k].z_acc)]
    /\ time' = [k \in DOMAIN d |-> d[k].seconds_elapsed]
    /\ n' = Len0(d)
    /\ vx' = Zeros(Len0(d)) /\ vy' = Zeros(Len0(d)) /\ vz' = Zeros(Len0(d))
    /\ px' = Zeros(Len0(d)) /\ py' = Zeros(Len0(d)) /\ pz' = Zeros(Len0(d))
    /\ i' = 1
    /\ displacement' = Empty
    /\ pc' = "loop"

\* calculate_position(data) with APPLY_ZUPT off, up to the loop
calculate_position ==
    /\ pc = "idle"
    /\ \E len \in 0..MaxLen : \E d \in SeriesOfLen(len) :
        /\ Setup(d)
        /\ apply_zupt' = FALSE
        /\ is_stationary' = Empty
        /\ UNCHANGED <<acc_threshold, window_size>>
    /\ UNCHANGED nonIntVars

\* calculate_position(data) with APPLY_ZUPT on:
\* calculate_position_with_zupt(data, acc_threshold, window_size), up to the loop
calculate_position_with_zupt ==
    /\ pc = "idle"
    /\ \E len \in 0..MaxLen : \E d \in SeriesOfLen(len) : \E zp \in ZuptParams :
        /\ Setup(d)
        /\ apply_zupt' = TRUE
        /\ acc_threshold' = zp[1]
        /\ window_size' = zp[2]
        /\ is_stationary' = detect_stationary_periods(d, zp[1], zp[2])
    /\ UNCHANGED nonIntVars

\* one iteration of `for i in range(1, n)` of calculate_position
PlainStep ==
    /\ pc = "loop" /\ ~apply_zupt /\ i < n
    /\ LET dt  == Dt(time, i)
           nvx == VelocityStep(vx[i - 1], x_acc_mps2[i - 1], x_acc_mps2[i], dt)
           nvy == VelocityStep(vy[i - 1], y_acc_mps2[i - 1], y_acc_mps2[i], dt)
           nvz == VelocityStep(vz[i - 1], z_acc_mps2[i - 1], z_acc_mps2[i], dt)
       IN  /\ vx' = [vx EXCEPT ![i] = nvx]
           /\ vy' = [vy EXCEPT ![i] = nvy]
           /\ vz' = [vz EXCEPT ![i] = nvz]
           /\ px' = [px EXCEPT ![i] = PositionStep(px[i - 1], vx[i - 1], nvx, dt)]
           /\ py' = [py EXCEPT ![i] = PositionStep(py[i - 1], vy[i - 1], nvy, dt)]
           /\ pz' = [pz EXCEPT ![i] = PositionStep(pz[i - 1], vz[i - 1], nvz, dt)]
    /\ i' = i + 1
    /\ UNCHANGED <<pc, data, apply_zupt, acc_threshold, window_size, x_acc_mps2,
                   y_acc_mps2, z_acc_mps2, is_stationary, time, n, displacement>>
    /\ UNCHANGED nonIntVars

\* one iteration of `for i in range(1, n)` of calculate_position_with_zupt
ZuptStep ==
    /\ pc = "loop" /\ apply_zupt /\ i < n
    /\ LET dt  == Dt(time, i)
           st  == is_stationary[i]
           nvx == ZuptVelocity(st, vx[i - 1], x_acc_mps2[i - 1], x_acc_mps2[i], dt)
           nvy == ZuptVelocity(st, vy[i - 1], y_acc_mps2[i - 1], y_acc_mps2[i], dt)
           nvz == ZuptVelocity(st, vz[i - 1], z_acc_mps2[i - 1], z_acc_mps2[i], dt)
       IN  /\ vx' = [vx EXCEPT ![i] = nvx]
           /\ vy' = [vy EXCEPT ![i] = nvy]
           /\ vz' = [vz EXCEPT ![i] = nvz]
           /\ px' = [px EXCEPT ![i] = PositionStep(px[i - 1], vx[i - 1], nvx, dt)]
           /\ py' = [py EXCEPT ![i] = PositionStep(py[i - 1], vy[i - 1], nvy, dt)]
           /\ pz' = [pz EXCEPT ![i] = PositionStep(pz[i - 1], vz[i - 1], nvz, dt)]
    /\ i' = i + 1
    /\ UNCHANGED <<pc, data, apply_zupt, acc_threshold, window_size, x_acc_mps2,
                   y_acc_mps2, z_acc_mps2, is_stationary, time, n, displacement>>
    /\ UNCHANGED nonIntVars

\* after the loop: the displacement column, and the return
Finish ==
    /\ pc = "loop" /\ i >= n
    /\ displacement' = [k \in DOMAIN px |-> DisplacementSq(px[k], py[k], pz[k])]
    /\ pc' = "done"
    /\ UNCHANGED <<data, apply_zupt, acc_threshold, window_size, x_acc_mps2,
                   y_acc_mps2, z_acc_mps2, is_stationary, time, n, i,
                   vx, vy, vz, px, py, pz>>
    /\ UNCHANGED nonIntVars

----------------------------------------------------------------------------
(* position.py: calculate_drift(position_data, known_distance)             *)

\* known_distance=None
NoDistance == <<>>

\* the known_distance arguments: none, 0, and the configured 0.34
KnownDistances == {NoDistance, Zero, Rat(17, 50)}

\* np.linalg.norm(final_pos), as its square
NormSqOf(x, y, z) == RAdd(RAdd(RSq(x), RSq(y)), RSq(z))

\* position_data['displacement'].max(), as its square: displacements are not
\* negative, so the largest has the largest square
RECURSIVE MaxUpTo(_, _)
MaxUpTo(f, hi) ==
    IF hi = 0 THEN f[0]
    ELSE LET m == MaxUpTo(f, hi - 1) IN IF RLt(m, f[hi]) THEN f[hi] ELSE m

MaxSq(f) == MaxUpTo(f, Len0(f) - 1)

RAbs(a) == IF RLt(a, Zero) THEN RNeg(a) ELSE a

\* abs(max_disp - known_distance), max_disp given by its square msq: a number
\* where max_disp is rational, else the irrational |sqrt(msq) - kd| ("surd",
\* which is never 0)
DisplacementError(msq, kd) ==
    IF IsSquare(msq[1]) /\ IsSquare(msq[2])
    THEN [kind |-> "num", val |-> RAbs(RSub(RSqrt(msq), kd))]
    ELSE [kind |-> "surd", val |-> msq]

\* err / known_distance * 100 on numpy doubles: a division by 0 gives nan for
\* 0/0 and inf otherwise, with a RuntimeWarning and no exception
ErrorPercent(err, kd) ==
    IF kd = Zero
    THEN IF err.kind = "num" /\ err.val = Zero
         THEN [kind |-> "nan", val |-> Zero] ELSE [kind |-> "inf", val |-> Zero]
    ELSE IF err.kind = "num"
         THEN [kind |-> "num", val |-> RMul(RDiv(err.val, kd), R(100))]
         ELSE [kind |-> "surd", val |-> err.val]

\* the dictionary without the known-distance keys (lines 327-335)
BaseMetrics ==
    [final_position |-> <<px[n - 1], py[n - 1], pz[n - 1]>>,
     final_displacement |-> displacement[n - 1],
     drift_magnitude |-> NormSqOf(px[n - 1], py[n - 1], pz[n - 1])]

\* ... and with them (lines 338-347)
ReturnErrorBug(x, y, z) == NormSqOf(px[0], py[0], pz[0])
ReturnError(x, y, z) == NormSqOf(x, y, z)

KnownDistanceMetrics(kd) ==
    LET msq == MaxSq(displacement)
        err == DisplacementError(msq, kd)
    IN  [final_position |-> BaseMetrics.final_position,
         final_displacement |-> BaseMetrics.final_displacement,
         drift_magnitude |-> BaseMetrics.drift_magnitude,
         known_distance |-> kd,
         max_displacement |-> msq,
         max_displacement_error |-> err,
         max_displacement_error_percent |-> ErrorPercent(err, kd),
         return_error |-> ReturnError(px[n - 1], py[n - 1], pz[n - 1])]

DriftInit ==
    /\ dpc = "idle"
    /\ known_distance = NoDistance
    /\ drift_metrics = <<>>

\* calculate_drift on the result of calculate_position; .iloc[-1] of an
\* empty frame raises IndexError
calculate_drift ==
    /\ pc = "done" /\ dpc = "idle"
    /\ \E kd \in KnownDistances :
        /\ known_distance' = kd
        /\ IF n = 0
           THEN dpc' = "IndexError" /\ drift_metrics' = drift_metrics
           ELSE /\ dpc' = "returned"
                /\ drift_metrics' = IF kd = NoDistance THEN BaseMetrics
                                     ELSE KnownDistanceMetrics(kd)
    /\ UNCHANGED <<intVars, calVars, preVars, mainVars, acqVars>>

----------------------------------------------------------------------------
(* Vectors and matrices.  A matrix is a tuple of rows; rows and columns are *)
(* numbered from 1, so A[:3, 3] of the source is column 4 of rows 1..3.     *)

\* Vectors and matrix rows are written out as tuples of 3 or 4 entries.
RECURSIVE DotUpTo(_, _, _)
DotUpTo(ua, ub, um) ==
    IF um = 0 THEN Zero ELSE RAdd(RMul(ua[um], ub[um]), DotUpTo(ua, ub, um - 1))

Dot(da, db) == DotUpTo(da, db, Len(da))

Col(cm, cj) ==
    IF Len(cm) = 3 THEN <<cm[1][cj], cm[2][cj], cm[3][cj]>>
    ELSE <<cm[1][cj], cm[2][cj], cm[3][cj], cm[4][cj]>>

Transpose(tm) ==
    IF Len(tm[1]) = 3 THEN <<Col(tm, 1), Col(tm, 2), Col(tm, 3)>>
    ELSE <<Col(tm, 1), Col(tm, 2), Col(tm, 3), Col(tm, 4)>>

\* row vector times matrix
RowMul(rv, rm) ==
    IF Len(rm[1]) = 3
    THEN <<Dot(rv, Col(rm, 1)), Dot(rv, Col(rm, 2)), Dot(rv, Col(rm, 3))>>
    ELSE <<Dot(rv, Col(rm, 1)), Dot(rv, Col(rm, 2)), Dot(rv, Col(rm, 3)),
           Dot(rv, Col(rm, 4))>>

MatMul(ma, mb) ==
    IF Len(ma) = 3
    THEN <<RowMul(ma[1], mb), RowMul(ma[2], mb), RowMul(ma[3], mb)>>
    ELSE <<RowMul(ma[1], mb), RowMul(ma[2], mb), RowMul(ma[3], mb), RowMul(ma[4], mb)>>

MatVec(wm, wv) == <<Dot(wm[1], wv), Dot(wm[2], wv), Dot(wm[3], wv)>>
VSub(sa, sb) == <<RSub(sa[1], sb[1]), RSub(sa[2], sb[2]), RSub(sa[3], sb[3])>>
VAdd(aa, ab) == <<RAdd(aa[1], ab[1]), RAdd(aa[2], ab[2]), RAdd(aa[3], ab[3])>>
VScale(ks, kv) == <<RMul(ks, kv[1]), RMul(ks, kv[2]), RMul(ks, kv[3])>>
MScale(js, jm) == <<VScale(js, jm[1]), VScale(js, jm[2]), VScale(js, jm[3])>>

\* np.diag(dv)
Diag(dv) ==
    <<<<dv[1], Zero, Zero>>, <<Zero, dv[2], Zero>>, <<Zero, Zero, dv[3]>>>>

Det3(dm) ==
    RAdd(RSub(RMul(dm[1][1], RSub(RMul(dm[2][2], dm[3][3]), RMul(dm[2][3], dm[3][2]))),
              RMul(dm[1][2], RSub(RMul(dm[2][1], dm[3][3]), RMul(dm[2][3], dm[3][1])))),
         RMul(dm[1][3], RSub(RMul(dm[2][1], dm[3][2]), RMul(dm[2][2], dm[3][1]))))

\* np.linalg.solve(ym, yr) for a regular 3x3 ym, by Cramer's rule
WithCol(xm, xr, xj) ==
    LET En(ri, ci) == IF ci = xj THEN xr[ri] ELSE xm[ri][ci]
    IN  <<<<En(1, 1), En(1, 2), En(1, 3)>>, <<En(2, 1), En(2, 2), En(2, 3)>>,
          <<En(3, 1), En(3, 2), En(3, 3)>>>>
Solve3(ym, yr) ==
    <<RDiv(Det3(WithCol(ym, yr, 1)), Det3(ym)), RDiv(Det3(WithCol(ym, yr, 2)), Det3(ym)),
      RDiv(Det3(WithCol(ym, yr, 3)), Det3(ym))>>

----------------------------------------------------------------------------
(* Calibration data: points that lie exactly on an ellipsoid.              *)

I3 == <<<<One, Zero, Zero>>, <<Zero, One, Zero>>, <<Zero, Zero, One>>>>

\* the rotation about z by the angle with cosine 3/5 and sine 4/5
Rz == <<<<Rat(3, 5), Rat(-4, 5), Zero>>, <<Rat(4, 5), Rat(3, 5), Zero>>,
        <<Zero, Zero, One>>>>

\* orientations of the ellipsoid: columns are its principal axes
Rotations == {I3, Rz}

\* radii along the principal axes
RadiiVals == {<<One, One, One>>, <<One, R(2), One>>, <<R(2), One, R(3)>>}

\* the center lies at distance CenterOffset along a principal axis, or at 0
CenterOffset == Rat(1, 2)

CentersFor(rot) ==
    {<<Zero, Zero, Zero>>} \cup {VScale(CenterOffset, Col(rot, k)) : k \in 1..3}

Ellipsoids ==
    UNION {{[shape |-> "ellipsoid", center |-> c, radii |-> r, rotation |-> rot] :
                r \in RadiiVals, c \in CentersFor(rot)} : rot \in Rotations}

\* data that lies on no ellipsoid: the one-sheeted hyperboloids
\* (x/r1)^2 + (y/r2)^2 - (z/r3)^2 = 1 in the principal axes, centered at 0
HyperRadiiVals == {<<One, One, One>>, <<One, R(2), One>>}

Hyperboloids ==
    {[shape |-> "hyperboloid", center |-> <<Zero, Zero, Zero>>, radii |-> r,
      rotation |-> rot] : r \in HyperRadiiVals, rot \in Rotations}

\* the surfaces the calibration data is taken from
Surfaces == Ellipsoids \cup Hyperboloids

\* +1 or -1 for each principal axis: the sign of its square in the equation
AxisSigns(e) ==
    IF e.shape = "hyperboloid" THEN <<One, One, R(-1)>> ELSE <<One, One, One>>

\* nine points of the unit sphere with rational coordinates
UnitPoints ==
    <<<<One, Zero, Zero>>, <<R(-1), Zero, Zero>>,
      <<Zero, One, Zero>>, <<Zero, R(-1), Zero>>,
      <<Zero, Zero, One>>, <<Zero, Zero, R(-1)>>,
      <<Rat(3, 5), Rat(4, 5), Zero>>, <<Zero, Rat(3, 5), Rat(4, 5)>>,
      <<Rat(4, 5), Zero, Rat(3, 5)>>>>

\* nine points of x^2 + y^2 - z^2 = 1 with rational coordinates
HyperPoints ==
    <<<<One, Zero, Zero>>, <<R(-1), Zero, Zero>>,
      <<Zero, One, Zero>>, <<Zero, R(-1), Zero>>,
      <<Rat(5, 3), Zero, Rat(4, 3)>>, <<Rat(5, 3), Zero, Rat(-4, 3)>>,
      <<Rat(5, 4), Zero, Rat(3, 4)>>, <<Zero, Rat(5, 3), Rat(4, 3)>>,
      <<One, One, One>>>>

\* the point of surface e that the point s of the unit surface stands for:
\* center + rotation * diag(radii) * s
OnEllipsoid(e, s) ==
    VAdd(e.center, MatVec(MatMul(e.rotation, Diag(e.radii)), s))

\* fewer points than the nine coefficients of the fit: the six ends of the axes
FewPoints == 6

\* how many data points are taken from e: nine, or the first FewPoints of an
\* axis-aligned ellipsoid centered at the origin
PointCounts(e) ==
    {Len(UnitPoints)} \cup
    (IF e.shape = "ellipsoid" /\ e.rotation = I3 /\ e.center = <<Zero, Zero, Zero>>
     THEN {FewPoints} ELSE {})

DataOf(e, cnt) ==
    [k \in 0..(cnt - 1) |->
        OnEllipsoid(e, IF e.shape = "hyperboloid" THEN HyperPoints[k + 1]
                       ELSE UnitPoints[k + 1])]

----------------------------------------------------------------------------
(* calculate_params.py: fit_ellipsoid and calibrate_accelerometer          *)

\* a row of D = column_stack([X**2, Y**2, Z**2, 2XY, 2XZ, 2YZ, 2X, 2Y, 2Z])
DesignRow(x, y, z) ==
    <<RSq(x), RSq(y), RSq(z),
      RMul(R(2), RMul(x, y)), RMul(R(2), RMul(x, z)), RMul(R(2), RMul(y, z)),
      RMul(R(2), x), RMul(R(2), y), RMul(R(2), z)>>

\* the coefficients u of the quadric  D u = 1  that is the surface e:
\* (x-c)^t M (x-c) = 1 with M = V diag(+-1/r^2) V^t, divided by 1 - c^t M c
QuadricOf(e) ==
    LET form == MatMul(MatMul(e.rotation,
                              Diag(<<RDiv(AxisSigns(e)[1], RSq(e.radii[1])),
                                     RDiv(AxisSigns(e)[2], RSq(e.radii[2])),
                                     RDiv(AxisSigns(e)[3], RSq(e.radii[3]))>>)),
                       Transpose(e.rotation))
        k0   == RSub(One, Dot(e.center, MatVec(form, e.center)))
        qq   == MScale(RDiv(One, k0), form)
        gv   == VScale(R(-1), MatVec(qq, e.center))
    IN  <<qq[1][1], qq[2][2], qq[3][3], qq[1][2], qq[1][3], qq[2][3],
          gv[1], gv[2], gv[3]>>

\* u = np.linalg.lstsq(D, b)[0] with b = ones: when the rows of D are points
\* of one ellipsoid in general position, the system is consistent and of full
\* rank, and the least-squares solution is its one exact solution
Solves(u, x, y, z) ==
    \A k \in DOMAIN x : Dot(DesignRow(x[k], y[k], z[k]), u) = One

\* with fewer rows than unknowns lstsq returns the solution of least norm:
\* the one solution that is a combination D^t w of the rows of D.  For the
\* ends +-r e_j of the axes the weights are w = 1 / (2 |p|^4).
AxisEndWeights(x, y, z) ==
    [k \in DOMAIN x |->
        RDiv(One, RMul(R(2), RSq(RAdd(RAdd(RSq(x[k]), RSq(y[k])), RSq(z[k])))))]

RowCombination(w, x, y, z) ==
    [j \in 1..9 |->
        SumOver([k \in DOMAIN x |-> RMul(w[k], DesignRow(x[k], y[k], z[k])[j])],
                0, Len0(x) - 1)]

LeastNorm(u, x, y, z) ==
    \A j \in 1..9 : RowCombination(AxisEndWeights(x, y, z), x, y, z)[j] = u[j]

\* u = np.linalg.lstsq(D, b, rcond=None)[0]
Lstsq(u, x, y, z) ==
    /\ Solves(u, x, y, z)
    /\ Len0(x) < 9 => LeastNorm(u, x, y, z)

\* A = np.array([[u0,u3,u4,u6],[u3,u1,u5,u7],[u4,u5,u2,u8],[u6,u7,u8,-1]])
QuadricMatrix(u) ==
    <<<<u[1], u[4], u[5], u[7]>>,
      <<u[4], u[2], u[6], u[8]>>,
      <<u[5], u[6], u[3], u[9]>>,
      <<u[7], u[8], u[9], R(-1)>>>>

\* A[:3, :3] and A[:3, 3]
Block3(m4) ==
    <<<<m4[1][1], m4[1][2], m4[1][3]>>, <<m4[2][1], m4[2][2], m4[2][3]>>,
      <<m4[3][1], m4[3][2], m4[3][3]>>>>
LastCol3(m4) == <<m4[1][4], m4[2][4], m4[3][4]>>

\* center = np.linalg.solve(-A[:3, :3], A[:3, 3])
CenterOf(m4) == Solve3(MScale(R(-1), Block3(m4)), LastCol3(m4))

\* T = np.eye(4); T[:3, 3] = center
Translation(cen) ==
    <<<<One, Zero, Zero, cen[1]>>, <<Zero, One, Zero, cen[2]>>,
      <<Zero, Zero, One, cen[3]>>, <<Zero, Zero, Zero, One>>>>

\* R = T.dot(A).dot(T.T)
Translated(m4, cen) ==
    MatMul(MatMul(Translation(cen), m4), Transpose(Translation(cen)))

\* R[:3, :3] / -R[3, 3]
Normalized(r4) == MScale(RDiv(One, RNeg(r4[4][4])), Block3(r4))

IsDiagonal(m3) == \A r \in 1..3 : \A j \in 1..3 : r # j => m3[r][j] = Zero

Perm3 == {q \in [1..3 -> 1..3] : \A a, b \in 1..3 : a # b => q[a] # q[b]}
Signs3 == [1..3 -> {1, -1}]

\* the orthonormal frames the eigenvectors are looked for in: the principal
\* axes of the orientations, in any order and with any signs
Frames ==
    {Transpose(<<VScale(R(sg[1]), Col(rot, q[1])), VScale(R(sg[2]), Col(rot, q[2])),
                 VScale(R(sg[3]), Col(rot, q[3]))>>) :
        rot \in Rotations, q \in Perm3, sg \in Signs3}

\* evals, evecs = np.linalg.eig(M): unit eigenvectors as columns.  A diagonal
\* M comes back as its diagonal and the identity; otherwise the order and
\* the signs of the eigenvectors are the library's choice.
Rayleigh(m3, w) == Dot(w, MatVec(m3, w))
IsEigenvector(m3, w) == MatVec(m3, w) = VScale(Rayleigh(m3, w), w)
Eig(m3) ==
    IF IsDiagonal(m3)
    THEN {[evals |-> <<m3[1][1], m3[2][2], m3[3][3]>>, evecs |-> I3]}
    ELSE {[evals |-> <<Rayleigh(m3, Col(F, 1)), Rayleigh(m3, Col(F, 2)),
                       Rayleigh(m3, Col(F, 3))>>, evecs |-> F] :
            F \in {G \in Frames : \A j \in 1..3 : IsEigenvector(m3, Col(G, j))}}

\* 1.0 / np.sqrt(l), as a record: the exact value where l is the square of a
\* rational; else the positive real whose square is val ("surd"); nan for a
\* negative l and inf for l = 0
InvSqrt(l) ==
    IF l[1] < 0 THEN [kind |-> "nan", val |-> Zero]
    ELSE IF l[1] = 0 THEN [kind |-> "inf", val |-> Zero]
    ELSE IF IsSquare(l[1]) /\ IsSquare(l[2])
         THEN [kind |-> "num", val |-> RDiv(One, RSqrt(l))]
         ELSE [kind |-> "surd", val |-> RDiv(One, l)]

Num(q) == [kind |-> "num", val |-> q]

\* fit_ellipsoid(X, Y, Z) from the solution u on: every (center, radii,
\* evecs, evals) it can return
\* (each stage is bound by \in {..}, which evaluates it before the next one)
FitResults(u) ==
    UNION {UNION {UNION {
        {[center |-> c0,
          radii |-> <<InvSqrt(eg.evals[1]), InvSqrt(eg.evals[2]), InvSqrt(eg.evals[3])>>,
          evecs |-> eg.evecs, evals |-> eg.evals,
          A |-> A4, R |-> R4] : eg \in Eig(Normalized(R4))}
        : R4 \in {Translated(A4, c0)}}
        : c0 \in {CenterOf(A4)}}
        : A4 \in {QuadricMatrix(u)}}

CalInit ==
    /\ cpc = "idle"
    /\ ellipsoid = [shape |-> "ellipsoid", center |-> <<Zero, Zero, Zero>>,
                    radii |-> <<One, One, One>>, rotation |-> I3]
    /\ X = Empty /\ Y = Empty /\ Z = Empty
    /\ center = <<>> /\ radii = <<>> /\ evecs = <<>> /\ evals = <<>>
    /\ quadA = <<>> /\ quadR = <<>>
    /\ bias = <<>> /\ transform_matrix = <<>>
    /\ calibrated_data = Empty

\* the caller's data: cnt points of a surface
LoadData(e, cnt) ==
    LET pts == DataOf(e, cnt)
    IN  /\ ellipsoid' = e
        /\ X' = [k \in DOMAIN pts |-> pts[k][1]]
        /\ Y' = [k \in DOMAIN pts |-> pts[k][2]]
        /\ Z' = [k \in DOMAIN pts |-> pts[k][3]]

\* a call of fit_ellipsoid(X, Y, Z) on its own
fit_ellipsoid ==
    /\ cpc = "idle"
    /\ \E e \in Surfaces : \E cnt \in PointCounts(e) :
        \E u \in {QuadricOf(e)} :
            /\ LoadData(e, cnt)
            /\ Lstsq(u, X', Y', Z')
            /\ \E f \in FitResults(u) :
                /\ center' = f.center /\ radii' = f.radii
                /\ evecs' = f.evecs /\ evals' = f.evals
                /\ quadA' = f.A /\ quadR' = f.R
    /\ cpc' = "fitted"
    /\ UNCHANGED <<bias, transform_matrix, calibrated_data>>
    /\ UNCHANGED nonCalVars

\* The entries of transform_matrix and calibrated_data: the real number
\* val + sum of coef * sqrt(radicand) over the pairs <<coef, radicand>> of
\* roots (coef # 0, radicand a positive rational that is no square of a
\* rational, each radicand once), or nan.
Exact(q) == [kind |-> "num", val |-> q, roots |-> <<>>]
NotANumber == [kind |-> "nan", val |-> Zero, roots |-> <<>>]
Mixed(q, rs) == [kind |-> IF rs = <<>> THEN "num" ELSE "sum", val |-> q, roots |-> rs]

\* the coefficient of sqrt(rad) in a list of roots
CoefOf(rs, rad) ==
    IF \E m \in DOMAIN rs : rs[m][2] = rad
    THEN rs[CHOOSE m \in DOMAIN rs : rs[m][2] = rad][1]
    ELSE Zero

\* c * s for a float c: nan stays nan, also for c = 0
Times(c, s) ==
    IF s.kind = "nan" THEN NotANumber
    ELSE IF c = Zero THEN Exact(Zero)
    ELSE Mixed(RMul(c, s.val),
               [m \in DOMAIN s.roots |-> <<RMul(c, s.roots[m][1]), s.roots[m][2]>>])

\* s + t
Plus(s, t) ==
    IF s.kind = "nan" \/ t.kind = "nan" THEN NotANumber
    ELSE LET both == [m \in DOMAIN s.roots |->
                        <<RAdd(s.roots[m][1], CoefOf(t.roots, s.roots[m][2])),
                          s.roots[m][2]>>]
             fresh(p) == CoefOf(s.roots, p[2]) = Zero
             left(p) == p[1] # Zero
         IN  Mixed(RAdd(s.val, t.val), SelectSeq(both \o SelectSeq(t.roots, fresh), left))

\* 1.0 / radii, entry by entry: 1/nan = nan and 1/inf = 0
InvRadii(rad) ==
    [k \in 1..3 |->
        CASE rad[k].kind = "num" -> Exact(RDiv(One, rad[k].val))
          [] rad[k].kind = "surd" -> Mixed(Zero, <<<<One, RDiv(One, rad[k].val)>>>>)
          [] rad[k].kind = "inf" -> Exact(Zero)
          [] rad[k].kind = "nan" -> NotANumber]

\* scaling_matrix = np.diag(1.0 / radii)
scaling_matrix(rad) ==
    [r \in 1..3 |-> [c \in 1..3 |-> IF r = c THEN InvRadii(rad)[r] ELSE Exact(Zero)]]

\* transform_matrix = rotation_matrix.dot(scaling_matrix)
TransformOf(rot, rad) ==
    [r \in 1..3 |-> [c \in 1..3 |->
        Plus(Plus(Times(rot[r][1], scaling_matrix(rad)[1][c]),
                  Times(rot[r][2], scaling_matrix(rad)[2][c])),
             Times(rot[r][3], scaling_matrix(rad)[3][c]))]]

\* np.dot(v, m) for a row v of floats
RowTimes(v, m) ==
    [c \in 1..3 |-> Plus(Plus(Times(v[1], m[1][c]), Times(v[2], m[2][c])),
                         Times(v[3], m[3][c]))]

\* calibrated_data = np.dot(data_points - bias, transform_matrix.T)
CalibratedBug(x, y, z, b, tf) ==
    [k \in DOMAIN x |-> RowTimes(VSub(<<x[k], y[k], z[k]>>, b), tf)]
Calibrated(x, y, z, b, tf) ==
    [k \in DOMAIN x |-> RowTimes(VSub(<<x[k], y[k], z[k]>>, b), Transpose(tf))]

\* calibrate_accelerometer(data)
calibrate_accelerometer ==
    /\ cpc = "idle"
    /\ \E e \in Surfaces : \E cnt \in PointCounts(e) :
        \E u \in {QuadricOf(e)} :
            /\ LoadData(e, cnt)
            /\ Lstsq(u, X', Y', Z')
            /\ \E f \in FitResults(u) :
                /\ center' = f.center /\ radii' = f.radii
                /\ evecs' = f.evecs /\ evals' = f.evals
                /\ quadA' = f.A /\ quadR' = f.R
                /\ bias' = f.center
                /\ transform_matrix' = TransformOf(f.evecs, f.radii)
                /\ calibrated_data' = Calibrated(X', Y', Z', bias', transform_matrix')
    /\ cpc' = "calibrated"
    /\ UNCHANGED nonCalVars

----------------------------------------------------------------------------
(* position.py: apply_calibration(data, cal_params)                        *)

\* longest series handed to apply_calibration
MaxCalLen == 4

\* acceleration samples: 0, x, y, x + y, 2x
CalAccVals == {<<0, 0, 0>>, <<1, 0, 0>>, <<0, 2, 1>>, <<1, 2, 1>>, <<2, 0, 0>>}

\* a DataFrame whose rows are numbered 0, 1, .. in seconds_elapsed
FrameOf(accs) == [k \in DOMAIN accs |-> Sample(k, accs[k])]

CalSeries ==
    UNION {{FrameOf(accs) : accs \in [0..(len - 1) -> CalAccVals]} : len \in 0..MaxCalLen}

\* cal_params is None
NoParams == [none |-> TRUE]

BiasVals == {<<Zero, Zero, Zero>>, <<Rat(1, 2), Zero, R(-1)>>}
TransformVals == {I3, <<<<R(2), One, Zero>>, <<Zero, One, Zero>>, <<Rat(1, 2), Zero, One>>>>}

\* dictionaries with both keys and 3-vectors / 3x3 matrices under them
GoodParams == {[bias |-> b, transform_matrix |-> tf] : b \in BiasVals, tf \in TransformVals}

\* dictionaries that lack a key, or hold a bias of length 2 or a 2x3 matrix
BadParams ==
    {[bias |-> <<Zero, Zero, Zero>>],
     [transform_matrix |-> I3],
     [bias |-> <<Zero, Zero>>, transform_matrix |-> I3],
     [bias |-> <<Zero, Zero, Zero>>, transform_matrix |-> <<I3[1], I3[2]>>]}

ParamVals == {NoParams} \cup GoodParams \cup BadParams

\* the literal 9.81 of apply_calibration
StdGravity == Rat(981, 100)

\* data[['x_acc', 'y_acc', 'z_acc']].values[i]
AccOf(row) == <<row.x_acc, row.y_acc, row.z_acc>>

\* cal_params["bias"] or cal_params["transform_matrix"] raises KeyError
KeyMissing(cp) ==
    "bias" \notin DOMAIN cp \/ "transform_matrix" \notin DOMAIN cp

\* acc_data[i] - bias, np.dot and the assignment to calibrated_data[i] go
\* through for a 3-vector and a 3x3 matrix; a bias of length 2 and a 2x3
\* matrix raise ValueError
ShapesFit(cp) ==
    /\ Len(cp.bias) = 3
    /\ Len(cp.transform_matrix) = 3
    /\ \A r \in 1..3 : Len(cp.transform_matrix[r]) = 3

\* whether the try block raises: the loop body runs only if there are rows
Raises(d, cp) == KeyMissing(cp) \/ (Len0(d) >= 1 /\ ~ShapesFit(cp))

\* one row through lines 92-102: to g, transform_matrix . (a - bias), back
CalibrateSampleBug(a, b, tf) ==
    MatVec(tf, VSub(VScale(RDiv(One, StdGravity), a), b))
CalibrateSample(a, b, tf) ==
    LET ag == IF UNITS_IN_MPS2 THEN VScale(RDiv(One, StdGravity), a) ELSE a
        cg == MatVec(tf, VSub(ag, b))
    IN  IF UNITS_IN_MPS2 THEN VScale(StdGravity, cg) ELSE cg

\* calibrated_df: the copy of data with the three columns replaced
CalibratedFrame(d, cp) ==
    [k \in DOMAIN d |->
        LET c == CalibrateSample(AccOf(d[k]), cp.bias, cp.transform_matrix)
        IN  [d[k] EXCEPT !.x_acc = c[1], !.y_acc = c[2], !.z_acc = c[3]]]

ApplyInit ==
    /\ apc = "idle"
    /\ cal_in = Empty
    /\ cal_params = NoParams
    /\ cal_out = Empty

\* apply_calibration(data, cal_params): None and every exception end in
\* `return data.copy()`
apply_calibration ==
    /\ apc = "idle" /\ gpc = "idle"
    /\ \E d \in CalSeries : \E cp \in ParamVals :
        /\ cal_in' = d
        /\ cal_params' = cp
        /\ cal_out' = IF cp = NoParams \/ Raises(d, cp) THEN d
                      ELSE CalibratedFrame(d, cp)
    /\ apc' = "returned"
    /\ UNCHANGED <<gpc, grav_in, grav_out>>
    /\ UNCHANGED nonPreVars

----------------------------------------------------------------------------
(* position.py: remove_gravity(data)                                       *)

\* longest series handed to remove_gravity
MaxGravLen == 11

\* acceleration samples of the series
GravAccVals == {<<0, 0, 0>>, <<0, 0, 2>>, <<0, 0, -2>>, <<1, 2, 2>>}

\* series that hold one sample up to a row and another from it on
GravSeries ==
    {FrameOf([k \in 0..(len - 1) |-> IF k < split THEN a ELSE b]) :
        len \in 0..MaxGravLen, split \in 0..MaxGravLen,
        a \in GravAccVals, b \in GravAccVals}

\* the 10 of data.iloc[:10]
InitialRows == 10

\* initial_samples = data.iloc[:10]: the rows of the first ten positions
InitialSamplesBug(d) == DOMAIN d
InitialSamples(d) == {k \in DOMAIN d : k < InitialRows}

\* a float that is not a number
NaN == <<0, 0>>

\* mean_acc = initial_samples[['x_acc', 'y_acc', 'z_acc']].mean().values, for
\* a series with rows
MeanAcc(d) ==
    LET rows == InitialSamples(d)
        cnt  == Cardinality(rows)
        col(c) == SumOver([k \in DOMAIN d |-> AccOf(d[k])[c]], 0, cnt - 1)
    IN  <<RDiv(col(1), R(cnt)), RDiv(col(2), R(cnt)), RDiv(col(3), R(cnt))>>

\* np.dot(acc_data[i], gravity_direction) * gravity_direction with
\* gravity_direction = mean_acc / sqrt(sum(mean_acc**2)): the two square roots
\* multiply to sum(mean_acc**2), so the product is (a . m) m / (m . m)
GravityComponent(a, m) == VScale(RDiv(Dot(a, m), Dot(m, m)), m)

\* the frame remove_gravity returns; a mean of zero magnitude makes
\* gravity_direction 0/0 = nan, and with it every sample
WithoutGravity(d) ==
    [k \in DOMAIN d |->
        LET m == MeanAcc(d)
        IN  IF Dot(m, m) = Zero
            THEN [d[k] EXCEPT !.x_acc = NaN, !.y_acc = NaN, !.z_acc = NaN]
            ELSE LET c == VSub(AccOf(d[k]), GravityComponent(AccOf(d[k]), m))
                 IN  [d[k] EXCEPT !.x_acc = c[1], !.y_acc = c[2], !.z_acc = c[3]]]

GravInit ==
    /\ gpc = "idle"
    /\ grav_in = Empty
    /\ grav_out = Empty

remove_gravity ==
    /\ gpc = "idle" /\ apc = "idle"
    /\ \E d \in GravSeries :
        /\ grav_in' = d
        /\ grav_out' = WithoutGravity(d)
    /\ gpc' = "returned"
    /\ UNCHANGED <<apc, cal_in, cal_params, cal_out>>
    /\ UNCHANGED nonPreVars

----------------------------------------------------------------------------
(* position.py: main()                                                     *)

\* longest INPUT_FILE
MaxMainLen == 2

\* the configuration of lines 15-21
KNOWN_DISTANCE == Rat(17, 50)
LOW_PASS_FILTER == FALSE
SCALE_FACTOR == Rat(1, 100)

\* rows of INPUT_FILE in sensor counts (981 counts are 1 g at SCALE_FACTOR);
\* z stays positive and x is not negative, so the mean of the first rows is
\* not the zero vector, before and after calibration with GoodParams
MainAccVals == {<<0, 0, 981>>, <<981, 0, 981>>, <<0, 981, 1962>>}

MainFiles ==
    UNION {{FrameOf(accs) : accs \in [0..(len - 1) -> MainAccVals]} :
              len \in 0..MaxMainLen}

\* what read_calibration_params returns: None, or the content of the file
MainParams ==
    {NoParams} \cup GoodParams \cup {[bias |-> <<Zero, Zero, Zero>>]}

\* preprocess_data(data, scale_factor)
preprocess_data(d, scale_factor) ==
    IF scale_factor # One
    THEN [k \in DOMAIN d |->
             [d[k] EXCEPT !.x_acc = RMul(d[k].x_acc, scale_factor),
                          !.y_acc = RMul(d[k].y_acc, scale_factor),
                          !.z_acc = RMul(d[k].z_acc, scale_factor)]]
    ELSE d

\* the loop of calculate_position (lines 280-300) as a function of the
\* frame: <<velocity, position>> of row k
RECURSIVE IntegrateTo(_, _)
IntegrateTo(d, k) ==
    IF k = 0 THEN <<<<Zero, Zero, Zero>>, <<Zero, Zero, Zero>>>>
    ELSE LET prev == IntegrateTo(d, k - 1)
             dt   == Dt([j \in DOMAIN d |-> d[j].seconds_elapsed], k)
             a0   == AccOf(d[k - 1])
             a1   == AccOf(d[k])
             v    == <<VelocityStep(prev[1][1], ToMps2(a0[1]), ToMps2(a1[1]), dt),
                       VelocityStep(prev[1][2], ToMps2(a0[2]), ToMps2(a1[2]), dt),
                       VelocityStep(prev[1][3], ToMps2(a0[3]), ToMps2(a1[3]), dt)>>
         IN  <<v, <<PositionStep(prev[2][1], prev[1][1], v[1], dt),
                    PositionStep(prev[2][2], prev[1][2], v[2], dt),
                    PositionStep(prev[2][3], prev[1][3], v[3], dt)>>>>

\* the frame calculate_position returns with APPLY_ZUPT off
PositionFrame(d) ==
    [k \in DOMAIN d |->
        LET s == IntegrateTo(d, k)
        IN  [seconds_elapsed |-> d[k].seconds_elapsed,
             vel |-> s[1], pos |-> s[2],
             displacement |-> DisplacementSq(s[2][1], s[2][2], s[2][3])]]

\* calculate_drift(position_data, known_distance=KNOWN_DISTANCE) of a frame
\* with rows
MetricsOf(pos, kd) ==
    LET last == pos[Len0(pos) - 1]
        msq  == MaxSq([k \in DOMAIN pos |-> pos[k].displacement])
        err  == DisplacementError(msq, kd)
    IN  [final_position |-> last.pos,
         final_displacement |-> last.displacement,
         drift_magnitude |-> NormSqOf(last.pos[1], last.pos[2], last.pos[3]),
         known_distance |-> kd,
         max_displacement |-> msq,
         max_displacement_error |-> err,
         max_displacement_error_percent |-> ErrorPercent(err, kd),
         return_error |-> NormSqOf(last.pos[1], last.pos[2], last.pos[3])]

MainInit ==
    /\ main_pc = "start"
    /\ input_file = Empty
    /\ main_data = Empty /\ raw_data = Empty
    /\ main_cal_params = NoParams
    /\ cal_data = Empty
    /\ raw_position_data = Empty /\ cal_position_data = Empty
    /\ raw_metrics = <<>> /\ cal_metrics = <<>>
    /\ stages = <<>>

\* lines 539-544: data = read_data(INPUT_FILE); a file that cannot be read
\* ends main, a file without rows raises IndexError at .iloc[-1]
MainRead ==
    /\ main_pc = "start"
    /\ \E readable \in BOOLEAN : \E f \in MainFiles :
        /\ input_file' = f
        /\ main_data' = IF readable THEN f ELSE Empty
        /\ main_pc' = IF ~readable THEN "returned"
                      ELSE IF Len0(f) = 0 THEN "IndexError" ELSE "preprocess"
    /\ stages' = <<"read_data">>
    /\ UNCHANGED <<raw_data, main_cal_params, cal_data, raw_position_data,
                   cal_position_data, raw_metrics, cal_metrics>>
    /\ UNCHANGED nonMainVars

\* lines 547-555: data = preprocess_data(data, scale_factor=SCALE_FACTOR),
\* raw_data = data.copy(), and the filter, which LOW_PASS_FILTER turns off
MainPreprocess ==
    /\ main_pc = "preprocess"
    /\ ~LOW_PASS_FILTER
    /\ main_data' = preprocess_data(main_data, SCALE_FACTOR)
    /\ raw_data' = main_data'
    /\ stages' = stages \o (IF SCALE_FACTOR # One THEN <<"scale">> ELSE <<>>)
    /\ main_pc' = "calibrate"
    /\ UNCHANGED <<input_file, main_cal_params, cal_data, raw_position_data,
                   cal_position_data, raw_metrics, cal_metrics>>
    /\ UNCHANGED nonMainVars

\* lines 558-565: cal_params = read_calibration_params(CALIBRATION_FILE) and
\* cal_data = apply_calibration(raw_data.copy(), cal_params) if cal_params
\* else None
MainCalibrate ==
    /\ main_pc = "calibrate"
    /\ \E cp \in MainParams :
        /\ main_cal_params' = cp
        /\ cal_data' = IF cp = NoParams THEN Empty
                       ELSE IF Raises(raw_data, cp) THEN raw_data
                       ELSE CalibratedFrame(raw_data, cp)
        /\ stages' = stages \o (IF cp = NoParams THEN <<>>
                                 ELSE <<"apply_calibration">>)
    /\ main_pc' = "integrate"
    /\ UNCHANGED <<input_file, main_data, raw_data, raw_position_data,
                   cal_position_data, raw_metrics, cal_metrics>>
    /\ UNCHANGED nonMainVars

\* lines 568-578: remove_gravity and calculate_position on the raw data and,
\* if there is one, on the calibrated data
MainIntegrate ==
    /\ main_pc = "integrate"
    /\ raw_position_data' = PositionFrame(WithoutGravity(raw_data))
    /\ cal_position_data' =
           IF main_cal_params = NoParams THEN Empty
           ELSE PositionFrame(WithoutGravity(cal_data))
    /\ stages' = stages \o <<"remove_gravity", "calculate_position">>
    /\ main_pc' = "drift"
    /\ UNCHANGED <<input_file, main_data, raw_data, main_cal_params, cal_data,
                   raw_metrics, cal_metrics>>
    /\ UNCHANGED nonMainVars

\* lines 581-582: raw_metrics and cal_metrics
MainDrift ==
    /\ main_pc = "drift"
    /\ raw_metrics' = MetricsOf(raw_position_data, KNOWN_DISTANCE)
    /\ cal_metrics' = IF main_cal_params = NoParams THEN <<>>
                      ELSE MetricsOf(cal_position_data, KNOWN_DISTANCE)
    /\ stages' = Append(stages, "calculate_drift")
    /\ main_pc' = "report"
    /\ UNCHANGED <<input_file, main_data, raw_data, main_cal_params, cal_data,
                   raw_position_data, cal_position_data>>
    /\ UNCHANGED nonMainVars

----------------------------------------------------------------------------
(* record_data.py: record_data_point(ser, num_samples, max_retries)        *)

\* the loops of the source with small limits: AVG_MEAS is 25 and MAX_MEAS is
\* 200 in record_data.py
AVG_MEAS == 2
MAX_MEAS == 2
RECONNECT_ATTEMPTS == 2

\* largest num_samples and max_retries of a direct call
MaxSamples == 3
MaxRetries == 2

\* a line is the sequence of its comma-separated fields; float() accepts a
\* field (ok) or raises ValueError
Tok(v) == [ok |-> TRUE, val |-> v]
Junk == [ok |-> FALSE, val |-> 0]

\* ser.read() returned None or an empty string
NoData == <<>>

\* what a read can deliver: nothing, two values, three values, four values, a
\* field that is no number
Lines ==
    {NoData,
     <<Tok(1), Tok(2)>>,
     <<Tok(0), Tok(0), Tok(1)>>,
     <<Tok(2), Tok(0), Tok(-1), Tok(7)>>,
     <<Tok(1), Junk, Tok(3)>>}

\* [float(x) for x in data.split(',')] raises ValueError
ParseError(line) == \E k \in DOMAIN line : ~line[k].ok

\* values = [float(x) for x in data.split(',')]
Values(line) == [k \in DOMAIN line |-> line[k].val]

\* values[:3]
FirstThree(values) == SubSeq(values, 1, 3)

\* the line adds a reading: it is there, parses, and has 3 values or more
IsReading(line) == line # NoData /\ ~ParseError(line) /\ Len(line) >= 3

\* the sum of column c of the first k rows
RECURSIVE ColumnSum(_, _, _)
ColumnSum(rows, c, k) ==
    IF k = 0 THEN 0 ELSE rows[k][c] + ColumnSum(rows, c, k - 1)

\* tuple(np.mean(np.array(readings), axis=0)): the readings hold the numbers
\* of the lines, the mean is the fraction sum / count
MeanOfBug(rows) == <<R(rows[1][1]), R(rows[1][2]), R(rows[1][3])>>
MeanOf(rows) ==
    <<Rat(ColumnSum(rows, 1, Len(rows)), Len(rows)),
      Rat(ColumnSum(rows, 2, Len(rows)), Len(rows)),
      Rat(ColumnSum(rows, 3, Len(rows)), Len(rows))>>

\* the return value None
None == <<>>

\* lines 133-141
ReturnValueBug(rows) == IF Len(rows) < 2 THEN None ELSE MeanOf(rows)
ReturnValue(rows) == IF rows = <<>> THEN None ELSE MeanOf(rows)

\* the branches of lines 115-131 that end in retries += 1: no data, fewer
\* than 3 values, a parse error
CountsAsRetryBug(line) == line = NoData \/ ParseError(line)
CountsAsRetry(line) == ~IsReading(line)

PointInit ==
    /\ rpc = "idle"
    /\ num_samples = 0 /\ max_retries = 0
    /\ readings = <<>> /\ retries = 0
    /\ reads = 0 /\ failed = 0
    /\ avg_reading = None

\* lines 106-107
PointCall(ns, mr) ==
    /\ rpc' = "loop"
    /\ num_samples' = ns /\ max_retries' = mr
    /\ readings' = <<>> /\ retries' = 0
    /\ reads' = 0 /\ failed' = 0
    /\ avg_reading' = None

\* a call of record_data_point with arguments of its own
record_data_point ==
    /\ rpc = "idle" /\ mpc = "prompt" /\ wpc = "idle"
    /\ \E ns \in 0..MaxSamples : \E mr \in 0..MaxRetries : PointCall(ns, mr)
    /\ UNCHANGED <<fileVars, recVars, rawVars>>
    /\ UNCHANGED nonAcqVars

\* one iteration of the loop that reads (lines 109-131)
PointRead ==
    /\ rpc = "loop"
    /\ Len(readings) < num_samples
    /\ retries < max_retries
    /\ \E line \in Lines :
        /\ readings' = IF IsReading(line)
                       THEN Append(readings, FirstThree(Values(line)))
                       ELSE readings
        /\ retries' = IF CountsAsRetry(line) THEN retries + 1 ELSE retries
        /\ failed' = IF IsReading(line) THEN failed ELSE failed + 1
    /\ reads' = reads + 1
    /\ UNCHANGED <<rpc, num_samples, max_retries, avg_reading>>
    /\ UNCHANGED <<fileVars, recVars, rawVars>>
    /\ UNCHANGED nonAcqVars

\* the loop ends, by its condition or by the break of line 112, and the
\* function returns (lines 133-141)
PointReturn ==
    /\ rpc = "loop"
    /\ Len(readings) >= num_samples \/ retries >= max_retries
    /\ avg_reading' = ReturnValue(readings)
    /\ rpc' = "returned"
    /\ UNCHANGED <<num_samples, max_retries, readings, retries, reads, failed>>
    /\ UNCHANGED <<fileVars, recVars, rawVars>>
    /\ UNCHANGED nonAcqVars

----------------------------------------------------------------------------
(* record_data.py and record_data_timestamped.py: save_to_file             *)

\* most calls of save_to_file in a sequence of direct calls
MaxCalls == 3

\* the header row df.to_csv writes for the columns, and a data row
HeaderRow(columns) == [kind |-> "header", cells |-> <<>>, width |-> Len(columns)]
DataRow(r) == [kind |-> "row", cells |-> r, width |-> Len(r)]

\* columns=['ax', 'ay', 'az'] and columns=["timestamp", "ax", "ay", "az"]
PointColumns == <<"ax", "ay", "az">>
RawColumns == <<"timestamp", "ax", "ay", "az">>

NoFile == [exists |-> FALSE, rows |-> <<>>]

RowsOf(d) == [k \in DOMAIN d |-> DataRow(d[k])]

\* df.to_csv(filename, mode='a' if file_exists else 'w',
\*           header=not file_exists, index=False)
ToCsvBug(f, d, columns) ==
    [exists |-> TRUE, rows |-> <<HeaderRow(columns)>> \o RowsOf(d)]
ToCsv(f, d, columns) ==
    IF f.exists
    THEN [exists |-> TRUE, rows |-> f.rows \o RowsOf(d)]
    ELSE [exists |-> TRUE, rows |-> <<HeaderRow(columns)>> \o RowsOf(d)]

\* what that call of df.to_csv writes: the header for a new file, then the
\* rows
Written(f, d, columns) ==
    (IF f.exists THEN <<>> ELSE <<HeaderRow(columns)>>) \o RowsOf(d)

\* the file after a save_to_file call that a KeyboardInterrupt cut short
\* (it passes the except Exception of the function): untouched when the
\* interrupt came before to_csv opened it; else it exists, empty when it was
\* new, with as much of the header and rows as had been written
CutShort(f, d, columns) ==
    {f} \cup {[exists |-> TRUE,
               rows |-> f.rows \o SubSeq(Written(f, d, columns), 1, j)] :
                  j \in 0..Len(Written(f, d, columns))}

\* pd.DataFrame(data, columns=...) accepts the rows: each has one value
\* for each column
Fits(d, columns) == \A k \in DOMAIN d : Len(d[k]) = Len(columns)

\* the file after a save_to_file call that returned False (lines 161-163):
\* untouched when pd.DataFrame or the opening of the file raised, else as
\* far as to_csv got before it raised
Failed(f, d, columns) ==
    IF Fits(d, columns) THEN CutShort(f, d, columns) ELSE {f}

\* most calls in a run of a main that return False
MaxLost == 1

\* the lists of rows of a direct call: none, one, two, and one row that is
\* too short
PointData ==
    {<<>>, <<<<One, Zero, Zero>>>>, <<<<Zero, One, Zero>>, <<Zero, Zero, Half>>>>,
     <<<<One, Zero>>>>}
RawData ==
    {<<>>, <<<<1, 1, 0, 0>>>>, <<<<2, 0, 1, 0>>, <<3, 0, 0, 1>>>>, <<<<1, 0, 0>>>>}

FileInit ==
    /\ file = NoFile /\ saved = <<>> /\ lost_saves = 0

\* a call of save_to_file(data, FILENAME) of either module that returns:
\* True after the write, False after an Exception
save_to_file ==
    /\ rpc = "idle" /\ mpc = "prompt" /\ wpc = "idle"
    /\ Len(saved) + Len(raw_saved) < MaxCalls
    /\ \E returned \in BOOLEAN :
        \/ \E d \in PointData :
            /\ IF returned /\ Fits(d, PointColumns)
               THEN /\ file' = ToCsv(file, d, PointColumns)
                    /\ lost_saves' = lost_saves
               ELSE /\ file' \in Failed(file, d, PointColumns)
                    /\ lost_saves' = lost_saves + 1
            /\ saved' = Append(saved, d)
            /\ UNCHANGED <<raw_file, raw_saved, raw_lost_saves>>
        \/ \E d \in RawData :
            /\ IF returned /\ Fits(d, RawColumns)
               THEN /\ raw_file' = ToCsv(raw_file, d, RawColumns)
                    /\ raw_lost_saves' = raw_lost_saves
               ELSE /\ raw_file' \in Failed(raw_file, d, RawColumns)
                    /\ raw_lost_saves' = raw_lost_saves + 1
            /\ raw_saved' = Append(raw_saved, d)
            /\ UNCHANGED <<file, saved, lost_saves>>
    /\ UNCHANGED <<tpc, wpc, now, end_time, raw_max_retries, raw_readings,
                   raw_retries, raw_lines>>
    /\ UNCHANGED <<pointVars, recVars>>
    /\ UNCHANGED nonAcqVars

\* a call of save_to_file(data, FILENAME) of either module that a
\* KeyboardInterrupt cuts short; the run ends, and a later run calls again
SaveInterrupted ==
    /\ rpc = "idle" /\ mpc = "prompt" /\ wpc = "idle"
    /\ Len(saved) + Len(raw_saved) < MaxCalls
    /\ \/ \E d \in PointData :
            /\ file' \in IF Fits(d, PointColumns)
                          THEN CutShort(file, d, PointColumns) ELSE {file}
            /\ saved' = Append(saved, d)
            /\ lost_saves' = lost_saves + 1
            /\ UNCHANGED <<raw_file, raw_saved, raw_lost_saves>>
       \/ \E d \in RawData :
            /\ raw_file' \in IF Fits(d, RawColumns)
                              THEN CutShort(raw_file, d, RawColumns) ELSE {raw_file}
            /\ raw_saved' = Append(raw_saved, d)
            /\ raw_lost_saves' = raw_lost_saves + 1
            /\ UNCHANGED <<file, saved, lost_saves>>
    /\ UNCHANGED <<tpc, wpc, now, end_time, raw_max_retries, raw_readings,
                   raw_retries, raw_lines>>
    /\ UNCHANGED <<pointVars, recVars>>
    /\ UNCHANGED nonAcqVars

----------------------------------------------------------------------------
(* record_data.py: main()                                                  *)

\* while position_count < MAX_MEAS
LoopContinuesBug(count) == count <= MAX_MEAS
LoopContinues(count) == count < MAX_MEAS

RecInit ==
    /\ mpc = "prompt"
    /\ position_count = 0
    /\ all_data = <<>>
    /\ reading = None

\* lines 183-196: the loop condition and the prompt; 'q' or a full count end
\* the loop
Prompt ==
    /\ mpc = "prompt" /\ rpc = "idle" /\ wpc = "idle"
    /\ \E user_input \in {"", "q"} :
        IF LoopContinues(position_count) /\ user_input # "q"
        THEN mpc' = "measure" /\ reading' = None
        ELSE mpc' = "finally" /\ reading' = reading
    /\ UNCHANGED <<position_count, all_data>>
    /\ UNCHANGED <<pointVars, fileVars, rawVars>>
    /\ UNCHANGED nonAcqVars

\* line 198: reading = record_data_point(ser), up to its loop
Measure ==
    /\ mpc = "measure" /\ rpc = "idle"
    /\ PointCall(AVG_MEAS, RECONNECT_ATTEMPTS)
    /\ UNCHANGED <<fileVars, recVars, rawVars>>
    /\ UNCHANGED nonAcqVars

\* lines 198-210 after record_data_point returned: without a reading the
\* inner loop goes round; with one main goes on to store it
AfterPoint ==
    /\ mpc = "measure" /\ rpc = "returned"
    /\ reading' = avg_reading
    /\ rpc' = "idle"
    /\ mpc' = IF avg_reading = None THEN "measure" ELSE "store"
    /\ UNCHANGED <<position_count, all_data>>
    /\ UNCHANGED <<num_samples, max_retries, readings, retries, reads, failed,
                   avg_reading>>
    /\ UNCHANGED <<fileVars, rawVars>>
    /\ UNCHANGED nonAcqVars

\* line 213: all_data.append((ax, ay, az))
StoreData ==
    /\ mpc = "store"
    /\ all_data' = Append(all_data, reading)
    /\ mpc' = "count"
    /\ UNCHANGED <<position_count, reading>>
    /\ UNCHANGED <<pointVars, fileVars, rawVars>>
    /\ UNCHANGED nonAcqVars

\* line 214: position_count += 1
CountPosition ==
    /\ mpc = "count"
    /\ position_count' = position_count + 1
    /\ mpc' = "save"
    /\ UNCHANGED <<all_data, reading>>
    /\ UNCHANGED <<pointVars, fileVars, rawVars>>
    /\ UNCHANGED nonAcqVars

\* line 217: save_to_file([(ax, ay, az)], FILENAME), and back to the loop
\* condition; main does not look at the value returned
SaveMeasurement ==
    /\ mpc = "save"
    /\ \E returned \in BOOLEAN :
        IF returned
        THEN /\ file' = ToCsv(file, <<reading>>, PointColumns)
             /\ lost_saves' = lost_saves
        ELSE /\ lost_saves < MaxLost
             /\ file' \in Failed(file, <<reading>>, PointColumns)
             /\ lost_saves' = lost_saves + 1
    /\ saved' = Append(saved, <<reading>>)
    /\ mpc' = "prompt"
    /\ UNCHANGED <<position_count, all_data, reading>>
    /\ UNCHANGED <<pointVars, rawVars>>
    /\ UNCHANGED nonAcqVars

\* KeyboardInterrupt (line 220): at the prompt, during a measurement, or
\* between any two of the statements that store, count and save it
Interrupt ==
    /\ mpc \in {"prompt", "measure", "store", "count", "save"}
    /\ mpc' = "finally"
    /\ rpc' = "idle"
    /\ UNCHANGED <<position_count, all_data, reading>>
    /\ UNCHANGED <<num_samples, max_retries, readings, retries, reads, failed,
                   avg_reading>>
    /\ UNCHANGED <<fileVars, rawVars>>
    /\ UNCHANGED nonAcqVars

\* KeyboardInterrupt inside the save_to_file call of line 217: it passes the
\* except Exception of line 161 and reaches line 220
InterruptInSave ==
    /\ mpc = "save"
    /\ file' \in CutShort(file, <<reading>>, PointColumns)
    /\ saved' = Append(saved, <<reading>>)
    /\ lost_saves' = lost_saves + 1
    /\ mpc' = "finally"
    /\ UNCHANGED <<position_count, all_data, reading>>
    /\ UNCHANGED <<pointVars, rawVars>>
    /\ UNCHANGED nonAcqVars

----------------------------------------------------------------------------
(* record_data_timestamped.py: record_raw_data(ser, duration, max_retries) *)

\* longest finite duration of a call, in ticks of the clock
MaxDuration == 3

\* the clock value up to which calls are started and reads are made
MaxClock == 4

\* the floats a duration can be: a number of ticks, nan, inf
Seconds(t) == [kind |-> "fin", val |-> t]
Durations ==
    {Seconds(t) : t \in 0..MaxDuration} \cup
        {[kind |-> "nan", val |-> 0], [kind |-> "inf", val |-> 0]}

\* end_time = start_time + duration
EndTime(start_time, duration) ==
    IF duration.kind = "fin" THEN Seconds(start_time + duration.val) ELSE duration

\* time.time() < end_time: false for nan, true for inf
Before(t, e) == e.kind = "inf" \/ (e.kind = "fin" /\ t < e.val)

\* duration <= 0: false for nan and inf
NotPositive(duration) == duration.kind = "fin" /\ duration.val <= 0

\* the ticks a ser.read(timeout=0.1) can take
ReadTicks == {1, 2}

\* the branches of lines 127-150 that end in retries += 1: no data, a parse
\* error
RawCountsAsRetryBug(line) == ~IsReading(line)
RawCountsAsRetry(line) == line = NoData \/ ParseError(line)

\* reading = (timestamp, values[0], values[1], values[2])
RawReading(timestamp, values) == <<timestamp, values[1], values[2], values[3]>>

RawInit ==
    /\ tpc = "start" /\ wpc = "idle"
    /\ now = 0 /\ end_time = Seconds(0)
    /\ raw_max_retries = 0
    /\ raw_readings = <<>> /\ raw_retries = 0
    /\ raw_lines = <<>>
    /\ raw_file = NoFile /\ raw_saved = <<>> /\ raw_lost_saves = 0

\* lines 113-116: the locals of a call
RawCall(duration, mr) ==
    /\ duration.kind = "fin" => now + duration.val <= MaxClock
    /\ end_time' = EndTime(now, duration)
    /\ raw_max_retries' = mr
    /\ raw_readings' = <<>> /\ raw_retries' = 0
    /\ raw_lines' = <<>>
    /\ wpc' = "loop"

\* a call of record_raw_data with arguments of its own, before main runs
record_raw_data ==
    /\ tpc = "start" /\ wpc = "idle"
    /\ rpc = "idle" /\ mpc = "prompt"
    /\ \E duration \in Durations : \E mr \in 0..MaxRetries :
        RawCall(duration, mr)
    /\ UNCHANGED <<tpc, now, raw_file, raw_saved, raw_lost_saves>>
    /\ UNCHANGED <<pointVars, fileVars, recVars>>
    /\ UNCHANGED nonAcqVars

\* one iteration of the loop up to readings.append (lines 120-138, 146,
\* 150); the read takes time
RawRead ==
    /\ wpc = "loop"
    /\ Before(now, end_time) /\ now < MaxClock
    /\ raw_retries < raw_max_retries
    /\ \E line \in Lines : \E took \in ReadTicks :
        /\ now' = now + took
        /\ raw_lines' = Append(raw_lines, line)
        /\ raw_retries' = IF RawCountsAsRetry(line) THEN raw_retries + 1
                          ELSE raw_retries
        /\ IF IsReading(line)
           THEN /\ raw_readings' =
                       Append(raw_readings, RawReading(now', Values(line)))
                /\ wpc' = "save"
           ELSE UNCHANGED <<raw_readings, wpc>>
    /\ UNCHANGED <<tpc, end_time, raw_max_retries, raw_file, raw_saved, raw_lost_saves>>
    /\ UNCHANGED <<pointVars, fileVars, recVars>>
    /\ UNCHANGED nonAcqVars

\* line 141: save_to_file([reading], FILENAME), and back to the loop
\* condition; the value returned is not looked at
RawSave ==
    /\ wpc = "save"
    /\ \E returned \in BOOLEAN :
        IF returned
        THEN /\ raw_file' =
                    ToCsv(raw_file, <<raw_readings[Len(raw_readings)]>>, RawColumns)
             /\ raw_lost_saves' = raw_lost_saves
        ELSE /\ raw_lost_saves < MaxLost
             /\ raw_file' \in
                    Failed(raw_file, <<raw_readings[Len(raw_readings)]>>, RawColumns)
             /\ raw_lost_saves' = raw_lost_saves + 1
    /\ raw_saved' = Append(raw_saved, <<raw_readings[Len(raw_readings)]>>)
    /\ wpc' = "loop"
    /\ UNCHANGED <<tpc, now, end_time, raw_max_retries, raw_readings, raw_retries,
                   raw_lines>>
    /\ UNCHANGED <<pointVars, fileVars, recVars>>
    /\ UNCHANGED nonAcqVars

\* the loop ends, by its condition or by the break of line 123, and the
\* function returns readings
RawReturn ==
    /\ wpc = "loop"
    /\ ~Before(now, end_time) \/ raw_retries >= raw_max_retries
    /\ wpc' = "returned"
    /\ UNCHANGED <<tpc, now, end_time, raw_max_retries, raw_readings, raw_retries,
                   raw_lines, raw_file, raw_saved, raw_lost_saves>>
    /\ UNCHANGED <<pointVars, fileVars, recVars>>
    /\ UNCHANGED nonAcqVars

----------------------------------------------------------------------------
(* record_data_timestamped.py: main()                                      *)

\* lines 179-192: main starts; without a serial connection it returns at
\* once
TimestampedMain ==
    /\ tpc = "start" /\ wpc \in {"idle", "returned"}
    /\ rpc = "idle" /\ mpc = "prompt"
    /\ \E connected \in BOOLEAN : tpc' = IF connected THEN "input" ELSE "exit"
    /\ UNCHANGED <<wpc, now, end_time, raw_max_retries, raw_readings, raw_retries,
                   raw_lines, raw_file, raw_saved, raw_lost_saves>>
    /\ UNCHANGED <<pointVars, fileVars, recVars>>
    /\ UNCHANGED nonAcqVars

\* lines 196-217: the prompt for the duration.  An answer that float()
\* rejects asks again, one that is <= 0 ends the loop, any other (nan and
\* inf included) starts record_raw_data(ser, duration=duration) with the
\* default max_retries
DurationPrompt ==
    /\ tpc = "input"
    /\ \E valid \in BOOLEAN : \E duration \in Durations :
        IF ~valid
        THEN UNCHANGED rawVars
        ELSE IF NotPositive(duration)
        THEN /\ tpc' = "finally"
             /\ UNCHANGED <<wpc, end_time, raw_max_retries, raw_readings,
                            raw_retries, raw_lines>>
        ELSE /\ RawCall(duration, RECONNECT_ATTEMPTS)
             /\ tpc' = "record"
    /\ UNCHANGED <<now, raw_file, raw_saved, raw_lost_saves>>
    /\ UNCHANGED <<pointVars, fileVars, recVars>>
    /\ UNCHANGED nonAcqVars

\* lines 219-233 after record_raw_data returned: "Record more data? (y/n)"
RecordMore ==
    /\ tpc = "record" /\ wpc = "returned"
    /\ \E answer \in {"y", "n"} : tpc' = IF answer = "y" THEN "input" ELSE "finally"
    /\ wpc' = "idle"
    /\ UNCHANGED <<now, end_time, raw_max_retries, raw_readings, raw_retries,
                   raw_lines, raw_file, raw_saved, raw_lost_saves>>
    /\ UNCHANGED <<pointVars, fileVars, recVars>>
    /\ UNCHANGED nonAcqVars

\* KeyboardInterrupt (line 235): at a prompt or in record_raw_data, between
\* readings.append and save_to_file included
RawInterrupt ==
    /\ tpc \in {"input", "record"}
    /\ tpc' = "finally"
    /\ wpc' = "idle"
    /\ UNCHANGED <<now, end_time, raw_max_retries, raw_readings, raw_retries,
                   raw_lines, raw_file, raw_saved, raw_lost_saves>>
    /\ UNCHANGED <<pointVars, fileVars, recVars>>
    /\ UNCHANGED nonAcqVars

\* KeyboardInterrupt inside the save_to_file call of line 141: it passes the
\* except Exception of line 173 and the except of line 148 and reaches line
\* 235
RawInterruptInSave ==
    /\ tpc = "record" /\ wpc = "save"
    /\ raw_file' \in CutShort(raw_file, <<raw_readings[Len(raw_readings)]>>, RawColumns)
    /\ raw_saved' = Append(raw_saved, <<raw_readings[Len(raw_readings)]>>)
    /\ raw_lost_saves' = raw_lost_saves + 1
    /\ tpc' = "finally"
    /\ wpc' = "idle"
    /\ UNCHANGED <<now, end_time, raw_max_retries, raw_readings, raw_retries,
                   raw_lines>>
    /\ UNCHANGED <<pointVars, fileVars, recVars>>
    /\ UNCHANGED nonAcqVars

AcqInit == PointInit /\ FileInit /\ RecInit /\ RawInit

Init ==
    IntInit /\ CalInit /\ DriftInit /\ ApplyInit /\ GravInit /\ MainInit /\ AcqInit

Next ==
    \/ calculate_position
    \/ calculate_position_with_zupt
    \/ PlainStep
    \/ ZuptStep
    \/ Finish
    \/ calculate_drift

Spec == Init /\ [][Next]_vars

CalNext ==
    \/ fit_ellipsoid
    \/ calibrate_accelerometer

SpecCal == Init /\ [][CalNext]_vars

PreNext ==
    \/ apply_calibration
    \/ remove_gravity

SpecPre == Init /\ [][PreNext]_vars

MainNext ==
    \/ MainRead
    \/ MainPreprocess
    \/ MainCalibrate
    \/ MainIntegrate
    \/ MainDrift

SpecMain == Init /\ [][MainNext]_vars

PointNext ==
    \/ record_data_point
    \/ PointRead
    \/ PointReturn

SpecPoint == Init /\ [][PointNext]_vars

\* the loop of record_data_point runs on: every ser.read returns within its
\* timeout
SpecPointLive == SpecPoint /\ WF_vars(PointRead) /\ WF_vars(PointReturn)

SaveNext ==
    \/ save_to_file
    \/ SaveInterrupted

SpecSave == Init /\ [][SaveNext]_vars

RecNext ==
    \/ Prompt
    \/ Measure
    \/ PointRead
    \/ PointReturn
    \/ AfterPoint
    \/ StoreData
    \/ CountPosition
    \/ SaveMeasurement
    \/ Interrupt
    \/ InterruptInSave

SpecRecord == Init /\ [][RecNext]_vars

\* main runs on between the prompts: the calls, the reads and the store are
\* not blocked; the operator at the prompt and the interrupt are not bound
\* to act
SpecRecordLive ==
    /\ SpecRecord
    /\ WF_vars(Measure) /\ WF_vars(PointRead) /\ WF_vars(PointReturn)
    /\ WF_vars(AfterPoint)
    /\ WF_vars(StoreData) /\ WF_vars(CountPosition) /\ WF_vars(SaveMeasurement)

RawNext ==
    \/ record_raw_data
    \/ RawRead
    \/ RawSave
    \/ RawReturn
    \/ TimestampedMain
    \/ DurationPrompt
    \/ RecordMore
    \/ RawInterrupt
    \/ RawInterruptInSave

SpecRaw == Init /\ [][RawNext]_vars

----------------------------------------------------------------------------
(* Properties of the integrator.                                           *)

V(k) == <<vx[k], vy[k], vz[k]>>
P(k) == <<px[k], py[k], pz[k]>>
A(k) == <<x_acc_mps2[k], y_acc_mps2[k], z_acc_mps2[k]>>
Zero3 == <<Zero, Zero, Zero>>
Axes == 1..3

\* the indices whose loop iteration has run
Integrated == IF pc = "idle" THEN {} ELSE 1..(i - 1)

DtOf(k) == RSub(time[k], time[k - 1])

\* prev + 0.5 * (a + b) * dt, written out
Trapezoid(prev, a, b, dt) == RAdd(prev, RMul(RMul(Rat(1, 2), RAdd(a, b)), dt))

\* C1: in plain mode every integrated index i satisfies, on each axis,
\* v[i] = v[i-1] + 0.5*(a[i-1]+a[i])*dt and p[i] = p[i-1] + 0.5*(v[i-1]+v[i])*dt
\* with dt = t[i] - t[i-1].
C1_PlainTrapezoid ==
    ~apply_zupt =>
        \A k \in Integrated : \A ax \in Axes :
            /\ V(k)[ax] = Trapezoid(V(k - 1)[ax], A(k - 1)[ax], A(k)[ax], DtOf(k))
            /\ P(k)[ax] = Trapezoid(P(k - 1)[ax], V(k - 1)[ax], V(k)[ax], DtOf(k))

C1_Witness ==
    /\ pc = "done" /\ ~apply_zupt /\ n >= 3
    /\ V(1) # Zero3 /\ V(2) # V(1) /\ P(2) # P(1)
    /\ DtOf(1) # DtOf(2)

\* C2: once the arrays exist, a non-empty series has velocity (0,0,0) and
\* position (0,0,0) at index 0, in plain and in ZUPT mode, at every point of
\* the loop and in the result.
C2_IntegrationBoundary ==
    (pc # "idle" /\ n >= 1) => (V(0) = Zero3 /\ P(0) = Zero3)

C2_Witness ==
    /\ pc = "done" /\ apply_zupt /\ n >= 2
    /\ A(0) # Zero3 /\ time[0] # Zero /\ V(1) # Zero3 /\ P(1) # Zero3

Scenario == [k \in 0..2 |-> Sample(k, <<IF k = 1 THEN 2 ELSE 0, 0, 0>>)]

\* C3 as stated: plain mode on (t=0,a=0), (t=1,a=2), (t=2,a=0) along x gives
\* vx = [0, 1, 1] and px = [0, 0.5, 1.5].
C3_ScenarioAsStated ==
    (pc = "done" /\ ~apply_zupt /\ data = Scenario) =>
        /\ vx = [k \in 0..2 |-> IF k = 0 THEN Zero ELSE One]
        /\ px = [k \in 0..2 |-> IF k = 0 THEN Zero
                                 ELSE IF k = 1 THEN Rat(1, 2) ELSE Rat(3, 2)]

\* C3 amended: plain mode on (t=0,a=0), (t=1,a=2), (t=2,a=0) along x gives
\* vx = [0, 1, 2] and px = [0, 0.5, 2], and zero on the y and z axes.
C3_Scenario ==
    (pc = "done" /\ ~apply_zupt /\ data = Scenario) =>
        /\ vx = [k \in 0..2 |-> R(k)]
        /\ px = [k \in 0..2 |-> IF k = 0 THEN Zero
                                 ELSE IF k = 1 THEN Rat(1, 2) ELSE R(2)]
        /\ \A k \in 0..2 : vy[k] = Zero /\ vz[k] = Zero /\ py[k] = Zero /\ pz[k] = Zero

C3_Witness ==
    /\ pc = "done" /\ ~apply_zupt
    /\ data = Scenario

\* C4: in ZUPT mode the velocity at every integrated index marked stationary
\* is (0,0,0), whatever the velocity before it and the accelerations.
C4_ZuptClamps ==
    apply_zupt => \A k \in Integrated : is_stationary[k] => V(k) = Zero3

\* a stationary index that follows a moving one, with accelerations that the
\* trapezoid would have turned into a nonzero velocity
C4_Witness ==
    /\ apply_zupt /\ pc = "done"
    /\ \E k \in Integrated :
        /\ is_stationary[k] /\ V(k - 1) # Zero3
        /\ Trapezoid(vx[k - 1], x_acc_mps2[k - 1], x_acc_mps2[k], DtOf(k)) # Zero

\* C5: in ZUPT mode the position at every integrated index is the trapezoid
\* of the velocities as stored (after clamping), and at an index that is not
\* stationary the velocity is the trapezoid step from the stored v[i-1].
C5_ZuptRecurrence ==
    apply_zupt =>
        \A k \in Integrated : \A ax \in Axes :
            /\ P(k)[ax] = Trapezoid(P(k - 1)[ax], V(k - 1)[ax], V(k)[ax], DtOf(k))
            /\ ~is_stationary[k] =>
                 V(k)[ax] = Trapezoid(V(k - 1)[ax], A(k - 1)[ax], A(k)[ax], DtOf(k))

\* a clamped index, where the unclamped step would have moved, followed by a
\* moving one
C5_Witness ==
    /\ apply_zupt /\ pc = "done"
    /\ \E k \in Integrated :
        /\ k + 1 \in Integrated
        /\ is_stationary[k] /\ ~is_stationary[k + 1]
        /\ Trapezoid(vx[k - 1], x_acc_mps2[k - 1], x_acc_mps2[k], DtOf(k)) # Zero
        /\ V(k + 1) # Zero3 /\ P(k + 1) # P(k)

\* C6 as stated: at every integrated index whose dt is zero or negative,
\* velocity and position equal those of the index before.
C6_NoUpdateWhenDtNotPositive ==
    \A k \in Integrated :
        RLe(DtOf(k), Zero) => (V(k) = V(k - 1) /\ P(k) = P(k - 1))

\* C6 amended: at every integrated index whose dt is zero the position equals
\* the position before, and so does the velocity unless ZUPT mode resets it
\* at a stationary sample.
C6_ZeroDtNoUpdate ==
    \A k \in Integrated :
        DtOf(k) = Zero =>
            /\ P(k) = P(k - 1)
            /\ (~apply_zupt \/ ~is_stationary[k]) => V(k) = V(k - 1)

C6_Witness ==
    /\ pc = "done"
    /\ \E k \in Integrated :
        /\ DtOf(k) = Zero /\ time[k] # Zero
        /\ V(k - 1) # Zero3 /\ A(k) # Zero3 /\ V(k) = V(k - 1)

\* C7: in plain mode a series whose acceleration is zero on every axis at
\* every sample has zero velocity and zero position at every index.
C7_ZeroAcceleration ==
    (pc # "idle" /\ ~apply_zupt /\ \A k \in DOMAIN data : A(k) = Zero3) =>
        \A k \in DOMAIN data : V(k) = Zero3 /\ P(k) = Zero3

C7_Witness ==
    /\ pc = "done" /\ ~apply_zupt /\ n >= 3
    /\ \A k \in DOMAIN data : A(k) = Zero3
    /\ \E k \in Integrated : RLt(Zero, DtOf(k))
    /\ \E k \in Integrated : RLt(DtOf(k), Zero)

StrictlyIncreasing(tm) ==
    \A k \in DOMAIN tm : k >= 1 => RLt(tm[k - 1], tm[k])

\* the same acceleration at every sample: positive on one axis, zero on the
\* other two
ConstantPush ==
    \E ax \in Axes : \E c \in {A(k)[ax] : k \in DOMAIN data} :
        /\ RLt(Zero, c)
        /\ \A k \in DOMAIN data :
            \A bx \in Axes : A(k)[bx] = IF bx = ax THEN c ELSE Zero

\* C8: in plain mode, with strictly increasing timestamps and a constant
\* positive acceleration on one axis only, displacement[i] > displacement[i-1]
\* for every i >= 1 (compared through their squares).
C8_MonotoneDisplacement ==
    (pc = "done" /\ ~apply_zupt /\ StrictlyIncreasing(time) /\ ConstantPush) =>
        \A k \in DOMAIN displacement :
            k >= 1 => RLt(displacement[k - 1], displacement[k])

C8_Witness ==
    /\ pc = "done" /\ ~apply_zupt /\ n >= 3
    /\ StrictlyIncreasing(time) /\ ConstantPush
    /\ RLt(Zero, displacement[1])

----------------------------------------------------------------------------
(* Calibration claims, under SpecCal                                       *)

\* an entry of calibrated_data with a single term, and its square
OneTerm(s) == s.kind = "num" \/ (s.kind = "sum" /\ s.val = Zero /\ Len(s.roots) = 1)
SquareOf(s) ==
    IF s.kind = "num" THEN RSq(s.val) ELSE RMul(RSq(s.roots[1][1]), s.roots[1][2])

\* the row w has magnitude 1: no entry is nan, and the squares add up to 1
\* (decided for rows of single-term entries, whose squares are rational; a
\* row with an entry of several terms is not counted against the claim)
HasMagnitudeOne(w) ==
    /\ \A c \in 1..3 : w[c].kind # "nan"
    /\ (\A c \in 1..3 : OneTerm(w[c])) =>
            RAdd(RAdd(SquareOf(w[1]), SquareOf(w[2])), SquareOf(w[3])) = One

\* C9: with bias = center and transform = rotation * diag(1/radii) taken from
\* the fit, transform * (x - bias) has magnitude 1 for every data point x of
\* the fitted ellipsoid, whatever its center, radii and orientation.
C9_CalibratedOnUnitSphere ==
    cpc = "calibrated" =>
        \A k \in DOMAIN calibrated_data : HasMagnitudeOne(calibrated_data[k])

\* C10: for points lying exactly on an ellipsoid, fit_ellipsoid returns the
\* center of that ellipsoid and its radii in some axis order, also when the
\* center is not the origin.
C10_FitRecoversCenterAndRadii ==
    cpc \in {"fitted", "calibrated"} =>
        /\ center = ellipsoid.center
        /\ \E q \in Perm3 : \A k \in 1..3 : radii[k] = Num(ellipsoid.radii[q[k]])

\* C11: when an eigenvalue of the normalized quadratic form is zero or
\* negative, fit_ellipsoid reports a failure: it never returns (center,
\* radii, evecs) with a radius computed from such an eigenvalue.
C11_NonPositiveEigenvalueFails ==
    cpc = "fitted" => \A k \in 1..3 : RLt(Zero, evals[k])

\* C12: fit_ellipsoid given fewer than 9 points fails instead of returning
\* ellipsoid parameters.
C12_TooFewPointsFail ==
    cpc = "fitted" => Len0(X) >= 9

\* C20: the R of fit_ellipsoid is the quadric translated to the center: its
\* upper-left 3x3 block is A[:3, :3] and its first-order terms R[:3, 3] vanish.
C20_TranslatedQuadric ==
    cpc = "fitted" =>
        /\ Block3(quadR) = Block3(quadA)
        /\ LastCol3(quadR) = <<Zero, Zero, Zero>>

----------------------------------------------------------------------------
(* Claims about short series and about calculate_drift, under Spec         *)

\* C15: integration of a series with fewer than 2 samples fails; it returns
\* no empty or single-state result.
C15_ShortSeriesFails ==
    pc = "done" => n >= 2

Returned == dpc = "returned"
WithDistance == known_distance # NoDistance

\* C16: with a known distance given, return_error is the norm of the last
\* state's position (compared through the squares), so it is 0 when the final
\* position is the origin, whatever the earlier positions were.
C16_ReturnError ==
    (Returned /\ WithDistance) =>
        /\ drift_metrics.return_error =
               RAdd(RAdd(RSq(px[n - 1]), RSq(py[n - 1])), RSq(pz[n - 1]))
        /\ (P(n - 1) = Zero3 => drift_metrics.return_error = Zero)

C16_Witness ==
    /\ Returned /\ WithDistance
    /\ P(n - 1) = Zero3
    /\ \E k \in DOMAIN px : P(k) # Zero3
    /\ drift_metrics.return_error = Zero

\* C17: with a known distance of 0, calculate_drift raises or flags an error:
\* it returns no record holding a max_displacement_error_percent.
C17_ZeroDistanceFails ==
    (Returned /\ known_distance = Zero) =>
        "max_displacement_error_percent" \notin DOMAIN drift_metrics

----------------------------------------------------------------------------
(* Claims about detect_stationary_periods, under Spec                      *)

\* the magnitude of the acceleration of row k
Magnitude(k) ==
    RSqrt(RAdd(RAdd(RSq(data[k].x_acc), RSq(data[k].y_acc)), RSq(data[k].z_acc)))

\* mean and sample variance of the magnitudes of the w rows ending at row k
WindowMean(k, w) ==
    RDiv(SumOver([j \in DOMAIN data |-> Magnitude(j)], k - w + 1, k), R(w))

WindowVariance(k, w) ==
    RDiv(SumOver([j \in DOMAIN data |-> RSq(RSub(Magnitude(j), WindowMean(k, w)))],
                 k - w + 1, k),
         R(w - 1))

\* the state in which detect_stationary_periods has just returned, before
\* the first iteration of the loop
Detected == apply_zupt /\ pc = "loop" /\ i = 1

\* where the window is complete, a sample is stationary exactly when the
\* rolling variance is below the threshold
BelowThreshold ==
    \A k \in DOMAIN data :
        k >= window_size - 1 =>
            (is_stationary[k] <=> RLt(WindowVariance(k, window_size), acc_threshold))

\* C19 as stated: a sample is stationary exactly when the rolling variance of
\* the magnitude over the last window_size samples is below the threshold,
\* and for every threshold the first window_size - 1 samples are stationary.
C19_FirstSamplesAlwaysStationary ==
    Detected =>
        /\ BelowThreshold
        /\ \A k \in DOMAIN data : k < window_size - 1 => is_stationary[k]

\* C19: a sample is stationary exactly when the rolling variance of the
\* magnitude over the last window_size samples is below the threshold; the
\* first window_size - 1 samples have variance 0 and are stationary exactly
\* when the threshold is positive.
C19_Stationary ==
    Detected =>
        /\ BelowThreshold
        /\ \A k \in DOMAIN data :
            k < window_size - 1 => (is_stationary[k] <=> RLt(Zero, acc_threshold))

C19_Witness ==
    /\ Detected /\ window_size = 3 /\ n = 3
    /\ RLt(Zero, acc_threshold)
    /\ is_stationary[0] /\ is_stationary[1] /\ ~is_stationary[2]
    /\ RLe(acc_threshold, WindowVariance(2, 3))

----------------------------------------------------------------------------
(* Claims about apply_calibration and remove_gravity, under SpecPre        *)

\* the call returned and the parameters were a model: both keys, a 3-vector
\* and a 3x3 matrix
ModelApplied ==
    apc = "returned" /\ cal_params # NoParams /\ ~KeyMissing(cal_params)
        /\ ShapesFit(cal_params)

In(k) == AccOf(cal_in[k])
Out(k) == AccOf(cal_out[k])
Scalars == {R(2), R(0), Rat(1, 2)}

\* C13 as stated: apply is linear in the sample: apply(x + y) = apply(x) +
\* apply(y) and apply(k*x) = k*apply(x), for every bias and transform.
C13_Linear ==
    ModelApplied =>
        /\ \A a, b, c \in DOMAIN cal_in :
            In(c) = VAdd(In(a), In(b)) => Out(c) = VAdd(Out(a), Out(b))
        /\ \A a, c \in DOMAIN cal_in : \A k \in Scalars :
            In(c) = VScale(k, In(a)) => Out(c) = VScale(k, Out(a))

\* C13: apply is affine in the sample, with linear part transform: for the
\* image o of the zero sample, apply(x) - o = transform * x, hence
\* apply(x + y) - o = (apply(x) - o) + (apply(y) - o) and
\* apply(k*x) - o = k*(apply(x) - o), for every bias and transform.
C13_Affine ==
    ModelApplied =>
        \A z \in DOMAIN cal_in :
            In(z) = Zero3 =>
                /\ \A a \in DOMAIN cal_in :
                    VSub(Out(a), Out(z)) = MatVec(cal_params.transform_matrix, In(a))
                /\ \A a, b, c \in DOMAIN cal_in :
                    In(c) = VAdd(In(a), In(b)) =>
                        VSub(Out(c), Out(z)) =
                            VAdd(VSub(Out(a), Out(z)), VSub(Out(b), Out(z)))
                /\ \A a, c \in DOMAIN cal_in : \A k \in Scalars :
                    In(c) = VScale(k, In(a)) =>
                        VSub(Out(c), Out(z)) = VScale(k, VSub(Out(a), Out(z)))

C13_Witness ==
    /\ ModelApplied
    /\ cal_params.bias # Zero3 /\ cal_params.transform_matrix # I3
    /\ \E z, a, b, c \in DOMAIN cal_in :
        /\ In(z) = Zero3 /\ In(a) # Zero3 /\ In(b) # Zero3 /\ In(a) # In(b)
        /\ In(c) = VAdd(In(a), In(b))
        /\ Out(z) # Zero3
        /\ Out(c) # VAdd(Out(a), Out(b))

\* C14: when applying the calibration fails (a key is missing, or a shape is
\* wrong), apply_calibration fails: it does not return, and so does not hand
\* back the uncalibrated samples.
C14_NoSilentFallback ==
    (cal_params # NoParams /\ Raises(cal_in, cal_params)) => apc # "returned"

GIn(k) == AccOf(grav_in[k])
GOut(k) == AccOf(grav_out[k])

\* the sum of the samples of the first ten rows (all rows of a shorter
\* series): a positive multiple of their mean, so with the same unit vector
FirstTen == {k \in DOMAIN grav_in : k < 10}

RECURSIVE VSum(_)
VSum(rows) ==
    IF rows = {} THEN Zero3
    ELSE LET k == CHOOSE j \in rows : TRUE IN VAdd(GIn(k), VSum(rows \ {k}))

GravitySum == VSum(FirstTen)

\* a - (a.g)g for the unit vector g of w
Rejection(a, w) == VSub(a, VScale(RDiv(Dot(a, w), Dot(w, w)), w))

\* C18: with g the unit vector of the mean acceleration of the first 10
\* samples (of all samples of a shorter series), which exists when that mean
\* is not zero, every sample a is replaced by a - (a.g)g, and every output
\* sample has zero component along g; the other columns are kept.
C18_GravityRemoved ==
    (gpc = "returned" /\ GravitySum # Zero3) =>
        /\ DOMAIN grav_out = DOMAIN grav_in
        /\ \A k \in DOMAIN grav_in :
            /\ GOut(k) = Rejection(GIn(k), GravitySum)
            /\ Dot(GOut(k), GravitySum) = Zero
            /\ grav_out[k].seconds_elapsed = grav_in[k].seconds_elapsed

C18_Witness ==
    /\ gpc = "returned" /\ GravitySum # Zero3
    /\ Len0(grav_in) > 10
    /\ GIn(10) # GIn(0) /\ GIn(9) = GIn(0)
    /\ GOut(10) # Zero3 /\ GOut(10) # GIn(10)

----------------------------------------------------------------------------
(* Further claims about the integrator and calculate_drift, under Spec     *)

\* plain-mode integration of the series held in the state, written as the
\* recurrence from v[0] = p[0] = 0
RECURSIVE PlainV(_)
PlainV(k) ==
    IF k = 0 THEN Zero3
    ELSE LET w == PlainV(k - 1)
         IN  <<Trapezoid(w[1], A(k - 1)[1], A(k)[1], DtOf(k)),
               Trapezoid(w[2], A(k - 1)[2], A(k)[2], DtOf(k)),
               Trapezoid(w[3], A(k - 1)[3], A(k)[3], DtOf(k))>>

RECURSIVE PlainP(_)
PlainP(k) ==
    IF k = 0 THEN Zero3
    ELSE LET q == PlainP(k - 1)
             w == PlainV(k - 1)
             u == PlainV(k)
         IN  <<Trapezoid(q[1], w[1], u[1], DtOf(k)),
               Trapezoid(q[2], w[2], u[2], DtOf(k)),
               Trapezoid(q[3], w[3], u[3], DtOf(k))>>

NoneStationary == \A k \in DOMAIN is_stationary : ~is_stationary[k]

\* C22: when no sample is marked stationary, ZUPT mode returns at every
\* index the velocity, position and displacement of plain-mode integration of
\* the same series.
C22_ZuptEqualsPlain ==
    (pc = "done" /\ apply_zupt /\ NoneStationary) =>
        \A k \in DOMAIN vx :
            /\ V(k) = PlainV(k)
            /\ P(k) = PlainP(k)
            /\ displacement[k] = Dot(PlainP(k), PlainP(k))

C22_Witness ==
    /\ pc = "done" /\ apply_zupt /\ NoneStationary
    /\ n = 3
    /\ V(1) # Zero3 /\ V(2) # V(1) /\ P(2) # P(1) /\ P(1) # Zero3

\* C23: in every record returned with a known distance, final_displacement,
\* drift_magnitude and return_error are one value, the norm of the final
\* position, and max_displacement >= final_displacement >= 0 (all compared
\* through their squares).
C23_DriftRecord ==
    (Returned /\ WithDistance) =>
        /\ drift_metrics.final_displacement = Dot(P(n - 1), P(n - 1))
        /\ drift_metrics.drift_magnitude = drift_metrics.final_displacement
        /\ drift_metrics.return_error = drift_metrics.final_displacement
        /\ RLe(drift_metrics.final_displacement, drift_metrics.max_displacement)
        /\ RLe(Zero, drift_metrics.final_displacement)

C23_Witness ==
    /\ Returned /\ WithDistance /\ n = 3
    /\ RLt(Zero, drift_metrics.final_displacement)
    /\ RLt(drift_metrics.final_displacement, drift_metrics.max_displacement)
    /\ drift_metrics.max_displacement = displacement[1]

----------------------------------------------------------------------------
(* Offline and online calibration, under SpecPre                           *)

\* a row of rationals as a row of entries of calibrated_data
Lift(w) == [c \in 1..3 |-> Exact(w[c])]

\* the columns of cal_in in g: the samples divided by 9.81
InG(c) == [k \in DOMAIN cal_in |-> RDiv(In(k)[c], StdGravity)]

\* C30: for the same bias and transform matrix, the sample computed offline
\* (centered data times the transposed transform) equals the sample
\* apply_calibration computes from the g-unit value of its input
\* (transform times (x - bias)), for every sample.
C30_OfflineEqualsOnline ==
    ModelApplied =>
        \A k \in DOMAIN cal_in :
            Lift(VScale(RDiv(One, StdGravity), Out(k))) =
                Calibrated(InG(1), InG(2), InG(3), cal_params.bias,
                           [r \in 1..3 |-> Lift(cal_params.transform_matrix[r])])[k]

C30_Witness ==
    /\ ModelApplied
    /\ cal_params.bias # Zero3
    /\ cal_params.transform_matrix # Transpose(cal_params.transform_matrix)
    /\ \E k \in DOMAIN cal_in : In(k) # Zero3 /\ Out(k) # In(k)

----------------------------------------------------------------------------
(* The order of the stages of main, under SpecMain                         *)

CalibrationRan == \E j \in DOMAIN stages : stages[j] = "apply_calibration"

\* C21: in a run of main, calibration is applied to the samples as read: no
\* scaling or filtering stage comes before apply_calibration, whose result is
\* the calibration of the rows of the input file.
C21_CalibrationFirst ==
    (CalibrationRan /\ ~Raises(raw_data, main_cal_params)) =>
        /\ \A j \in DOMAIN stages : \A k \in DOMAIN stages :
               (stages[j] = "apply_calibration" /\ k < j) =>
                   stages[k] \notin {"scale", "apply_low_pass_filter"}
        /\ cal_data = CalibratedFrame(input_file, main_cal_params)

----------------------------------------------------------------------------
(* record_data_point, under SpecPointLive and SpecPoint                    *)

\* C24: record_data_point terminates: a call in its loop returns, and it
\* makes at most num_samples + max_retries reads, at most max_retries of
\* them without a reading, each read adding a reading or a retry.
C24_PointTerminates ==
    /\ [](/\ reads <= num_samples + max_retries
          /\ failed <= max_retries
          /\ reads = Len(readings) + retries
          /\ failed = retries)
    /\ (rpc = "loop") ~> (rpc = "returned")

C24_Witness ==
    /\ rpc = "returned"
    /\ num_samples = 3 /\ max_retries = 2
    /\ Len(readings) = 2 /\ failed = 2 /\ reads = 4

\* C25: record_data_point returns None exactly when it collected no reading;
\* otherwise the component-wise mean of the readings it collected, also when
\* the retry limit stopped it short of num_samples.
C25_MeanOrNone ==
    rpc = "returned" =>
        /\ (avg_reading = None) <=> (readings = <<>>)
        /\ readings # <<>> =>
               \A c \in 1..3 :
                   RMul(R(Len(readings)), avg_reading[c]) =
                       R(ColumnSum(readings, c, Len(readings)))

C25_Witness ==
    /\ rpc = "returned"
    /\ Len(readings) = 2 /\ num_samples = 3 /\ retries = max_retries
    /\ readings[1] # readings[2]
    /\ avg_reading # None

----------------------------------------------------------------------------
(* save_to_file, under SpecSave                                            *)

RECURSIVE Flatten(_)
Flatten(ds) == IF ds = <<>> THEN <<>> ELSE RowsOf(Head(ds)) \o Flatten(Tail(ds))

\* the file after the calls with the data ds, starting with no file
Expected(ds, columns) ==
    IF ds = <<>> THEN NoFile
    ELSE [exists |-> TRUE, rows |-> <<HeaderRow(columns)>> \o Flatten(ds)]

\* C27 as stated: after any sequence of save_to_file calls, starting with
\* no file, the file holds one header row followed by the rows of all calls
\* in call order, for the function of either module.
C27_OneHeaderThenRows ==
    /\ file = Expected(saved, PointColumns)
    /\ raw_file = Expected(raw_saved, RawColumns)

\* f2 is f1 with data rows appended: nothing truncated, no header added
Appended(f1, f2) ==
    /\ f2.exists
    /\ Len(f2.rows) >= Len(f1.rows)
    /\ SubSeq(f2.rows, 1, Len(f1.rows)) = f1.rows
    /\ \A k \in (Len(f1.rows) + 1)..Len(f2.rows) : f2.rows[k].kind = "row"

\* C27: after a sequence of save_to_file calls that all returned True,
\* starting with no file, the file holds one header row followed by the rows
\* of all calls in call order; and in every call, whether it returned True,
\* returned False or was left by KeyboardInterrupt, a file that exists is
\* appended to, never truncated or given a second header.
C27_CompletedCalls ==
    /\ [](/\ lost_saves = 0 => file = Expected(saved, PointColumns)
          /\ raw_lost_saves = 0 => raw_file = Expected(raw_saved, RawColumns))
    /\ [][/\ file.exists => Appended(file, file')
          /\ raw_file.exists => Appended(raw_file, raw_file')]_vars

C27_Witness ==
    /\ lost_saves = 0
    /\ Len(saved) = 3
    /\ saved[1] = <<>> /\ Len(saved[2]) = 2 /\ Len(saved[3]) = 1
    /\ Len(file.rows) = 4

\* a call cut short after to_csv created the file left it empty, and the next
\* call appended its rows without a header
HeaderlessFile ==
    /\ file.exists /\ file.rows # <<>> /\ file.rows[1].kind = "row"

\* a call returned False and wrote nothing: the file lacks its rows
RowsLost ==
    /\ lost_saves = 1 /\ Len(saved) = 2 /\ Fits(saved[2], PointColumns)
    /\ saved[2] # <<>> /\ file = Expected(<<saved[1]>>, PointColumns)

----------------------------------------------------------------------------
(* record_data main, under SpecRecord and SpecRecordLive                   *)

\* the loop condition of line 183 is about to be evaluated
LoopBoundary == mpc = "prompt"

\* C29: at every loop boundary position_count is the number of measurements
\* in all_data and of save_to_file calls, one for each measurement in order;
\* it never exceeds MAX_MEAS; and every increment counts the measurement
\* just stored and is followed by the save_to_file call for it.
C29_CountMatchesData ==
    /\ [](/\ position_count <= MAX_MEAS
          /\ LoopBoundary =>
                /\ position_count = Len(all_data)
                /\ Len(saved) = position_count
                /\ \A k \in DOMAIN saved : saved[k] = <<all_data[k]>>)
    /\ [][position_count' # position_count =>
              /\ position_count' = position_count + 1
              /\ position_count' = Len(all_data)
              /\ mpc' = "save" /\ reading = all_data[Len(all_data)]]_vars
    /\ [][(mpc = "save" /\ mpc' = "prompt") =>
              saved' = Append(saved, <<all_data[position_count]>>)]_vars

C29_Witness ==
    /\ LoopBoundary
    /\ position_count = MAX_MEAS
    /\ all_data[1] # all_data[2]

\* an interrupt between lines 213 and 217 reaches the finally block with a
\* measurement stored that is not counted, or counted and not saved
InterruptedMidStore ==
    mpc = "finally" /\ (position_count # Len(all_data) \/ Len(saved) # position_count)

\* an interrupt inside the first save_to_file call, after to_csv created the
\* file: the measurement is counted and the file is there, empty
InterruptedInFirstSave ==
    mpc = "finally" /\ position_count = 1 /\ file = [exists |-> TRUE, rows |-> <<>>]

\* a valid line arrived during the measurement in progress
GotValid == mpc = "measure" /\ rpc = "loop" /\ readings # <<>>

\* C26: a position is recorded only with a valid reading; a measurement
\* ends only by going on to record its reading or by an interrupt; and once
\* the device has delivered a valid line the position is recorded (or main
\* is interrupted).
C26_RepeatsUntilReading ==
    /\ [][all_data' # all_data =>
              /\ readings # <<>>
              /\ all_data' = Append(all_data, MeanOf(readings))]_vars
    /\ [][position_count' # position_count =>
              /\ readings # <<>>
              /\ all_data[Len(all_data)] = MeanOf(readings)]_vars
    /\ [][(mpc = "measure" /\ mpc' # "measure") =>
              \/ mpc' = "store" /\ reading' = MeanOf(readings) /\ readings # <<>>
              \/ mpc' = "finally" /\ position_count' = position_count]_vars
    /\ GotValid ~> (mpc = "finally" \/ (mpc = "prompt" /\ position_count > 0))

\* a call returned without a reading and main is about to call again
C26_Witness ==
    /\ mpc = "measure" /\ rpc = "idle"
    /\ reading = None /\ retries = RECONNECT_ATTEMPTS /\ readings = <<>>
    /\ position_count = 1

----------------------------------------------------------------------------
(* record_raw_data, under SpecRaw                                          *)

ShortLine(line) == line # NoData /\ ~ParseError(line) /\ Len(line) < 3
GoodLine(line) == line # NoData /\ ~ParseError(line) /\ Len(line) >= 3
FailedLine(line) == line = NoData \/ ParseError(line)

\* the save_to_file calls since the call of record_raw_data began: the last
\* m entries of raw_saved are the first m readings, in order
SavedTail(m) ==
    /\ Len(raw_saved) >= m
    /\ \A k \in 1..m :
           raw_saved[Len(raw_saved) - m + k] = <<raw_readings[k]>>

\* the duration has elapsed
Elapsed == end_time.kind = "fin" /\ now >= end_time.val

\* the readings and the save_to_file calls of record_raw_data: every reading
\* was passed to save_to_file once, in capture order and before the next
\* read (the file holds them while every call returned True); the readings
\* are the lines with 3 values or more; the retries count the reads without
\* data and the parse errors, not the short lines
ReadingsSaved ==
    /\ wpc \in {"loop", "returned"} => SavedTail(Len(raw_readings))
    /\ wpc = "save" => SavedTail(Len(raw_readings) - 1)
    /\ raw_lost_saves = 0 => raw_file = Expected(raw_saved, RawColumns)
    /\ Len(raw_readings) = Len(SelectSeq(raw_lines, GoodLine))
    /\ \A k \in DOMAIN raw_readings :
           Tail(raw_readings[k]) =
               FirstThree(Values(SelectSeq(raw_lines, GoodLine)[k]))
    /\ raw_retries = Len(SelectSeq(raw_lines, FailedLine))

SavedBeforeNextRead ==
    /\ [][raw_saved' # raw_saved =>
              /\ wpc = "save"
              /\ raw_saved' = Append(raw_saved, <<raw_readings[Len(raw_readings)]>>)]_vars
    /\ [][Len(raw_lines') > Len(raw_lines) =>
              /\ wpc = "loop"
              /\ ~Elapsed /\ raw_retries < raw_max_retries]_vars

\* C28 as stated: every reading was passed to save_to_file once, in capture
\* order and before the next read; short lines are neither recorded nor
\* counted as retries; and the loop ends as soon as, and only when, the
\* duration has elapsed or the retries have reached max_retries.
C28_RawSavedOnce ==
    /\ [](/\ ReadingsSaved
          /\ wpc = "returned" => (Elapsed \/ raw_retries >= raw_max_retries))
    /\ SavedBeforeNextRead

\* C28: as above, with the end of the loop as the code has it: it ends when
\* the duration has elapsed or the retries have reached max_retries, and
\* for a duration of nan, for which time.time() < end_time is false from the
\* start, it ends at once without a read.
C28_RawSavedOnceOrNan ==
    /\ [](/\ ReadingsSaved
          /\ wpc = "returned" =>
                \/ Elapsed \/ raw_retries >= raw_max_retries
                \/ end_time.kind = "nan" /\ raw_lines = <<>>)
    /\ SavedBeforeNextRead
    /\ [][Len(raw_lines') > Len(raw_lines) => end_time.kind # "nan"]_vars

\* the second call of a run of main returned, with the file of the first
C28_Witness ==
    /\ tpc = "record" /\ wpc = "returned"
    /\ Len(raw_readings) = 1 /\ Len(raw_saved) = 2 /\ raw_lost_saves = 0
    /\ \E k \in DOMAIN raw_lines : ShortLine(raw_lines[k])
    /\ \E k \in DOMAIN raw_lines : FailedLine(raw_lines[k])
    /\ raw_retries < raw_max_retries

====
